---- MODULE Spec2Model ----
(***************************************************************************)
(* A model of one RPC of the gRPC-Go client: ClientConn.Invoke (call.go)   *)
(* and ClientConn.NewStream (stream.go), the attempt loop of               *)
(* newClientStream, the send and receive paths of csAttempt and            *)
(* clientStream.finish, together with the environment they run against:   *)
(* the caller's context, the ClientConn context, the balancer's picker     *)
(* and the transport.                                                      *)
(***************************************************************************)
EXTENDS Integers, Sequences, FiniteSets, TLC

\* ---------------------------------------------------------------- bounds
\* how many times the balancer installs a new picker during one RPC
MaxPickerUpdates == 1
\* how many times the transport's NewStream fails during one RPC
MaxNewStreamFailures == 1
\* c.maxSendMessageSize; payloads are 1..MaxSendSize+1 bytes long
MaxSendSize == 1
\* how many operations the user's goroutines perform on a stream
MaxUserOps == 2
\* The goroutines of the resolver that publish updates.
NumPublishers == 2
\* The calls of NewAddress and NewServiceConfig in a behaviour.
MaxPublishes == 3
\* The latest time at which a call starts, and the latest deadline of a
\* caller's context.
MaxTime == 2
\* The longest MethodConfig timeout.
MaxTimeout == 2
\* The longest duration string of which every one is parsed.
MaxDurationLen == 4
\* The longest dial target.
MaxTargetLen == 7
\* The calls of RegisterCompressor and RegisterCodec in a behaviour.
MaxRegistrations == 3
\* The largest message size of a MethodConfig, of a call option and of the
\* defaults.
MaxMsgSize == 2
\* The longest list of default call options and of per-call options.
MaxOptions == 2
\* The events (SubConn state changes, resolver updates, shutdown) that reach
\* the balancer in a behaviour.
MaxBalancerEvents == 3
\* The RPCs that may be inside Pick at the same time.
MaxPicking == 2
\* The calls of ClientHandshake on one tlsCreds that run at the same time.
NumHandshakes == 2

\* ---------------------------------------------------------------- values
\* The goroutines of one RPC: the caller (it runs newClientStream, and then
\* SendMsg / CloseSend / Header, or the whole of invoke), a second user
\* goroutine calling RecvMsg on a stream, and the goroutine newClientStream
\* starts for a non-unary stream.
Threads == {"main", "recv", "watch"}

\* What balancer.Picker.Pick can answer.
PickerKinds ==
    {"Ready", "ReadyNoDone", "NotReady", "ErrNoSubConnAvailable",
     "ErrTransientFailure", "ErrOther"}

\* Status codes the server can end a stream with.
ServerStatus == {"OK", "Unavailable", "Unknown"}

VARIABLES
    entry,         \* "Invoke" or "NewStream": the entry point of the RPC
    c,             \* callInfo: failFast, maxSendMessageSize
    desc,          \* StreamDesc: ClientStreams, ServerStreams
    ctxErr,        \* Err() of the caller's context
    ccCtxDone,     \* cc.ctx is done (ClientConn closed)
    picker,        \* what the ClientConn's current picker answers
    pickerVer,     \* how many pickers UpdateBalancerState has installed
    nFail,         \* failures of the transport's NewStream so far
    calls,         \* one record per call of newClientStream
    dones,         \* one record per done callback a pick returned
    pc,            \* position of every goroutine
    lv,            \* locals of every goroutine: err, finish's return position
    pickedVer,     \* the picker version getTransport evaluated last, or -1
    curDone,       \* newClientStream's local done: index in dones, 0 for nil
                   \* (and when newClientStream is not running)
    firstAttempt,  \* invoke's local
    unproc,        \* the last value read from cs.attempt.s.Unprocessed()
    opsLeft,       \* operations the user's goroutines may still start
    result,        \* what Invoke / NewStream returned, "pending" before
    resultFrom,    \* the call whose error Invoke / NewStream returned
    ccr,           \* ccResolverWrapper: addrCh, scCh, done, and close()
    watcher,       \* the goroutine of ccr.watcher(): position and locals
    publishers,    \* the resolver's goroutines inside NewAddress /
                   \* NewServiceConfig
    published,     \* per channel: the argument of the latest call, whether
                   \* two calls have overlapped; and the calls left
    handler,       \* cc.handleResolvedAddrs / cc.handleServiceConfig: calls
                   \* running, and the latest call
    ci,            \* the making of a call's callInfo: the options of the
                   \* ClientConn and of the call, the MethodConfig, and c
    bal,           \* the balancer of the ClientConn: the events waiting for
                   \* it, its callbacks and the Picks that are running
    fn,            \* a call of a function that has no state of its own
                   \* (getMaxSize, parseDuration, parseTarget,
                   \* parseServiceConfig): its name,
                   \* its arguments and, once it has returned, its result
    reg,           \* the compressor and the codec registries, and a call
                   \* that chooses its send compression from them
    creds          \* a tlsCreds: the tls.Configs there are, the first of
                   \* them its own, and its calls of ClientHandshake

\* The state of an RPC.
rpc ==
    <<entry, c, desc, ctxErr, ccCtxDone, picker, pickerVer, nFail, calls,
      dones, pc, lv, pickedVer, curDone, firstAttempt, unproc, opsLeft,
      result, resultFrom>>

\* The state of the ClientConn's resolver wrapper, which no RPC touches.
ccState == <<ccr, watcher, publishers, published, handler>>

vars == <<rpc, ccState, ci, bal, fn, reg, creds>>

\* What an RPC, the resolver wrapper, the making of a callInfo and the
\* balancer leave alone.
nonRPC == <<ccState, ci, bal, fn, reg, creds>>
nonResolver == <<rpc, ci, bal, fn, reg, creds>>
nonCallInfo == <<rpc, ccState, bal, fn, reg, creds>>
nonBalancer == <<rpc, ccState, ci, fn, reg, creds>>
nonFunction == <<rpc, ccState, ci, bal, reg, creds>>
nonRegistry == <<rpc, ccState, ci, bal, fn, creds>>
nonCredentials == <<rpc, ccState, ci, bal, fn, reg>>

config == <<entry, c, desc>>

\* cc.dopts.copts.StatsHandler # nil: the ClientConn was dialed with a stats
\* handler, so that the Begin and End events of every RPC are observed.
sh == TRUE

\* var unaryStreamDesc = &StreamDesc{ServerStreams: false, ClientStreams: false}
unaryStreamDesc == [ClientStreams |-> FALSE, ServerStreams |-> FALSE]

\* StreamDesc: "At least one of these is true."
StreamDescs ==
    {d \in [ClientStreams : BOOLEAN, ServerStreams : BOOLEAN] :
        d.ClientStreams \/ d.ServerStreams}

\* toRPCErr: nil, io.EOF and status errors pass; a context error becomes the
\* status of the same name; a transport connection error is Unavailable; any
\* other error is Unknown.
toRPCErr(err) ==
    CASE err = "ConnectionError" -> "Unavailable"
      [] err = "error" -> "Unknown"
      [] OTHER -> err

\* Nothing read from the transport stream.
noRecv == [first |-> "none", second |-> "none", status |-> "none"]

\* What a goroutine keeps of its last operation on the stream: the
\* operation, the length of the payload it sent, what it read, the error it
\* returns and where it returns to.
frame(op, n, err, ret, recv) ==
    [op |-> op, n |-> n, err |-> err, ret |-> ret, recv |-> recv]

\* The record newClientStream's call starts from.
newCall(parentErr) ==
    [ctx |-> parentErr, cancels |-> 0, begins |-> 0, ends |-> 0,
     endErr |-> "none", ctxChecks |-> 0, getTransports |-> 0, picks |-> 0,
     lastPick |-> "none", newStreams |-> 0, cs |-> FALSE, finished |-> FALSE,
     closeStreams |-> 0, closeErr |-> "none", afters |-> 0,
     bytesReceived |-> FALSE, sentLast |-> FALSE, writes |-> <<>>,
     done |-> 0]

cur == Len(calls)

\* context.CancelFunc: the first cancel sets Err() to Canceled.
cancelled(call) ==
    [call EXCEPT !.cancels = @ + 1,
                 !.ctx = IF @ = "nil" THEN "Canceled" ELSE @]

\* The goroutines of the resolver.
Publishers == 1..NumPublishers

\* What the resolver has to report: a list of addresses, or the empty list
\* with the error of a failed resolution.
Resolutions ==
    {[addrs |-> <<"a1">>, err |-> "nil"], [addrs |-> <<"a2">>, err |-> "nil"],
     [addrs |-> <<>>, err |-> "error"]}

\* The service configs (JSON strings) the resolver reports.
ServiceConfigs == {"sc1", "sc2"}

\* newCCResolverWrapper: channels of capacity 1, done open; the watcher is
\* not started yet, the resolver has published nothing.
newCCResolverWrapper ==
    /\ ccr = [addrCh |-> <<>>, scCh |-> <<>>, done |-> FALSE,
              resolverClosed |-> FALSE]
    /\ watcher = [pc |-> "off", val |-> "none", deq |-> 0, made |-> 0]
    /\ publishers = [p \in Publishers |-> [pc |-> "idle", val |-> "none"]]
    /\ published = [addr |-> [last |-> "none", raced |-> FALSE],
                    sc |-> [last |-> "none", raced |-> FALSE],
                    left |-> MaxPublishes, log |-> <<>>]
    /\ handler = [running |-> 0, fn |-> "none", arg |-> "none",
                  err |-> "none"]

\* The same for a resolver that publishes from one goroutine: the other
\* goroutines do not exist, and a log is kept of what is published and of
\* what the watcher delivers to the ClientConn, in the order of the calls.
oneResolverGoroutine ==
    /\ ccr = [addrCh |-> <<>>, scCh |-> <<>>, done |-> FALSE,
              resolverClosed |-> FALSE]
    /\ watcher = [pc |-> "off", val |-> "none", deq |-> 0, made |-> 0]
    /\ publishers = [p \in Publishers |->
                        [pc |-> IF p = 1 THEN "idle" ELSE "absent",
                         val |-> "none"]]
    /\ published = [addr |-> [last |-> "none", raced |-> FALSE],
                    sc |-> [last |-> "none", raced |-> FALSE],
                    left |-> MaxPublishes,
                    log |-> <<[published |-> <<>>, delivered |-> <<>>]>>]
    /\ handler = [running |-> 0, fn |-> "none", arg |-> "none",
                  err |-> "none"]

\* A balancer that has been built and has been told nothing yet.
newBalancer ==
    [queue |-> <<>>, worker |-> "idle", running |-> 0, callback |-> "none",
     closing |-> FALSE, picking |-> 0, left |-> MaxBalancerEvents]

\* No callInfo is being made.
noCallInfo ==
    [pc |-> "off", dopts |-> <<>>, percall |-> <<>>, mc |-> <<>>,
     default |-> TRUE, opts |-> <<>>, i |-> 0, c |-> [failFast |-> TRUE],
     deadline |-> <<>>, timeout |-> <<>>, now |-> 0, ctxDeadline |-> <<>>]

\* No function is being called.
noFunction == [op |-> "none", arg |-> <<>>, done |-> FALSE, out |-> <<>>]

\* var registeredCompressor = make(map[string]Compressor) and
\* var registeredCodecs = make(map[string]Codec, 0): both empty; nothing has
\* been registered and no call has chosen its compression.
\* No call has chosen its send compression yet.
noCompression ==
    [pc |-> "off", ct |-> "", cp |-> <<>>, SendCompress |-> "",
     comp |-> <<>>, cpUsed |-> <<>>, err |-> "nil", cs |-> FALSE]
\* compressors and codecs are the arguments of the calls of
\* RegisterCompressor and of RegisterCodec so far, panicked tells whether
\* the last RegisterCodec panicked.
newRegistries ==
    [registeredCompressor |-> <<>>, registeredCodecs |-> <<>>,
     compressors |-> <<>>, codecs |-> <<>>, panicked |-> FALSE,
     call |-> noCompression]

\* The calls of ClientHandshake.
Handshakes == 1..NumHandshakes

\* ClientHandshake has not been called: no tls.Config of its own, no
\* goroutine, and a context that is not done.
noHandshake ==
    [pc |-> "idle", authority |-> <<>>, cfg |-> 0, ctx |-> "nil",
     errChannel |-> <<>>, sent |-> 0,
     g |-> [pc |-> "off", err |-> "none", ServerName |-> <<>>],
     ret |-> [conn |-> FALSE, err |-> "none"]]

\* func NewTLS(c *tls.Config) TransportCredentials, for a config whose
\* ServerName is name: the tlsCreds hold the first tls.Config.
NewTLS(name) ==
    [configs |-> <<[ServerName |-> name]>>,
     hs |-> [h \in Handshakes |-> noHandshake]]

\* The state in which ClientConn.Invoke or ClientConn.NewStream is entered.
StartRPC(entries) ==
    /\ entry \in entries
    /\ c \in [failFast : BOOLEAN, maxSendMessageSize : {MaxSendSize}]
    /\ desc \in (IF entry = "Invoke" THEN {unaryStreamDesc} ELSE StreamDescs)
    /\ ctxErr = "nil"
    /\ ccCtxDone = FALSE
    /\ picker \in PickerKinds
    /\ pickerVer = 0
    /\ nFail = 0
    /\ calls = <<>>
    /\ dones = <<>>
    /\ pc = [t \in Threads |-> IF t = "main" THEN "newClientStream" ELSE "off"]
    /\ lv = [t \in Threads |-> frame("none", 0, "nil", "off", noRecv)]
    /\ pickedVer = -1
    /\ curDone = 0
    /\ firstAttempt = TRUE
    /\ unproc = FALSE
    /\ opsLeft = MaxUserOps
    /\ result = "pending"
    /\ resultFrom = "none"

\* The same, on a ClientConn whose resolver wrapper has just been made.
Start(entries) == StartRPC(entries) /\ newCCResolverWrapper

\* A unary RPC: ClientConn.Invoke.
Init ==
    /\ Start({"Invoke"}) /\ ci = noCallInfo /\ bal = newBalancer
    /\ fn = noFunction /\ reg = newRegistries
    /\ creds = NewTLS(<<>>)

\* A streaming RPC: ClientConn.NewStream and the user's goroutines.
StreamInit ==
    /\ Start({"NewStream"}) /\ ci = noCallInfo /\ bal = newBalancer
    /\ fn = noFunction /\ reg = newRegistries
    /\ creds = NewTLS(<<>>)


\* ------------------------------------------------------- newClientStream
Call == calls[cur]

\* (mutant) an error return without the deferred functions
deferredNone(call, err) == call

\* The deferred functions of newClientStream on an error return: cancel()
\* of the derived context, and a stats End event if Begin was emitted.
deferred(call, err) ==
    [cancelled(call) EXCEPT !.ends = IF call.begins > 0 THEN @ + 1 ELSE @,
                            !.endErr = IF call.begins > 0 THEN err ELSE @]

\* newClientStream returns (nil, err); invoke and NewStream return that error
\* to their caller at once.
ncsReturnErr(call, err) ==
    /\ calls' = [calls EXCEPT ![cur] = deferred(call, err)]
    /\ pc' = [pc EXCEPT !["main"] = "done"]
    /\ result' = err
    /\ resultFrom' = "newClientStream"

\* What can go wrong before the attempt loop: an option's before hook fails
\* (returned through toRPCErr), or the per-call compressor is not registered.
SetupOutcomes == {"ok", "before", "compressor"}

\* newClientStream up to the attempt loop: the derived context, the options'
\* before hooks, codec and compressor selection, the stats Begin event.
NcsBegin ==
    /\ pc["main"] = "newClientStream"
    /\ \E o \in SetupOutcomes :
        LET call == newCall(ctxErr) IN
        CASE o = "ok" ->
               /\ calls' = Append(calls,
                      [call EXCEPT !.begins = IF sh THEN 1 ELSE 0])
               /\ pc' = [pc EXCEPT !["main"] = "attempt"]
               /\ UNCHANGED <<result, resultFrom>>
          [] o = "before" ->
               /\ calls' = Append(calls, cancelled(call))
               /\ pc' = [pc EXCEPT !["main"] = "done"]
               /\ result' = toRPCErr("error")
               /\ resultFrom' = "newClientStream"
          [] o = "compressor" ->
               /\ calls' = Append(calls, cancelled(call))
               /\ pc' = [pc EXCEPT !["main"] = "done"]
               /\ result' = "Internal"
               /\ resultFrom' = "newClientStream"
    /\ curDone' = 0
    /\ UNCHANGED <<config, nonRPC,
                   ctxErr, ccCtxDone, picker, pickerVer, nFail, dones,
                   lv, pickedVer, firstAttempt, unproc, opsLeft>>

\* (mutant) an attempt loop without the context check
ctxNeverExpired(call) == FALSE

\* select { case <-ctx.Done(): ... default: } at the top of the attempt loop
ctxExpired(call) == call.ctx # "nil"

\* The top of the attempt loop: the context check, then the call of
\* cc.getTransport.
NcsAttempt ==
    /\ pc["main"] = "attempt"
    /\ LET call == [Call EXCEPT !.ctxChecks = @ + 1] IN
       IF ctxExpired(call)
       THEN /\ ncsReturnErr(call, toRPCErr(call.ctx))
            /\ UNCHANGED pickedVer
       ELSE /\ calls' = [calls EXCEPT ![cur] =
                             [call EXCEPT !.getTransports = @ + 1]]
            /\ pc' = [pc EXCEPT !["main"] = "getTransport"]
            /\ pickedVer' = -1
            /\ UNCHANGED <<result, resultFrom>>
    /\ UNCHANGED <<config, nonRPC,
                   ctxErr, ccCtxDone, picker, pickerVer, nFail, dones,
                   lv, curDone, firstAttempt, unproc, opsLeft>>

\* (mutant) getTransport is always called as for a wait-for-ready RPC
pickWaitForReady == FALSE

\* The failfast argument newClientStream passes to cc.getTransport.
pickFailFast == c.failFast

\* (mutant) ErrNoSubConnAvailable fails the RPC instead of blocking it
pickOutcomeNoBlock(kind, failfast) ==
    CASE kind \in {"Ready", "ReadyNoDone"} -> "transport"
      [] kind = "NotReady" -> "block"
      [] kind = "ErrTransientFailure" ->
             IF failfast THEN "Unavailable" ELSE "block"
      [] OTHER -> "Unavailable"

\* How the ClientConn treats what Pick answered: it hands the transport of a
\* READY SubConn to the caller, blocks until the next picker, or fails the RPC
\* with Unavailable.
pickOutcome(kind, failfast) ==
    CASE kind \in {"Ready", "ReadyNoDone"} -> "transport"
      [] kind \in {"NotReady", "ErrNoSubConnAvailable"} -> "block"
      [] kind = "ErrTransientFailure" ->
             IF failfast THEN "Unavailable" ELSE "block"
      [] OTHER -> "Unavailable"

\* cc.getTransport evaluates the current picker; it does so once per picker.
Pick ==
    /\ pc["main"] = "getTransport"
    /\ pickedVer # pickerVer
    /\ pickedVer' = pickerVer
    /\ LET call == [Call EXCEPT !.picks = @ + 1, !.lastPick = picker]
           out == pickOutcome(picker, pickFailFast) IN
       CASE out = "transport" ->
              /\ calls' = [calls EXCEPT ![cur] = call]
              /\ dones' = Append(dones,
                     [call |-> cur, nonNil |-> picker = "Ready", fired |-> 0,
                      Err |-> "none", BytesSent |-> FALSE,
                      BytesReceived |-> FALSE, from |-> "none"])
              /\ curDone' = IF picker = "Ready" THEN Len(dones) + 1 ELSE 0
              /\ pc' = [pc EXCEPT !["main"] = "NewStream"]
              /\ UNCHANGED <<result, resultFrom>>
         [] out = "block" ->
              /\ calls' = [calls EXCEPT ![cur] = call]
              /\ UNCHANGED <<dones, curDone, pc, result, resultFrom>>
         [] out = "Unavailable" ->
              /\ ncsReturnErr(call, "Unavailable")
              /\ UNCHANGED <<dones, curDone>>
    /\ UNCHANGED <<config, nonRPC,
                   ctxErr, ccCtxDone, picker, pickerVer, nFail, lv,
                   firstAttempt, unproc, opsLeft>>

\* A pick blocked on the next picker ends when the context is done.
PickCtxDone ==
    /\ pc["main"] = "getTransport"
    /\ pickedVer = pickerVer
    /\ Call.ctx # "nil"
    /\ ncsReturnErr(Call, toRPCErr(Call.ctx))
    /\ UNCHANGED <<config, nonRPC,
                   ctxErr, ccCtxDone, picker, pickerVer, nFail, dones,
                   lv, pickedVer, curDone, firstAttempt, unproc, opsLeft>>

\* (mutant) the done callback is dropped without being called
doneDropped(ds, d, err) == ds

\* if done != nil { done(balancer.DoneInfo{Err: err}); done = nil }
doneOnNewStreamErr(ds, d, err) ==
    IF d # 0
    THEN [ds EXCEPT ![d].fired = @ + 1, ![d].Err = err,
                    ![d].from = "NewStream"]
    ELSE ds

\* (mutant) every NewStream error is returned
neverRetryNewStream == FALSE

\* (mutant) every NewStream error is retried
alwaysRetryNewStream == TRUE

\* if !c.failFast { continue }
retryNewStream == ~c.failFast

\* s, err = t.NewStream(ctx, callHdr) and what follows it: on an error the
\* done callback, then the next iteration or the error return; on success
\* the clientStream and, unless the stream is unary, its goroutine.
NewStream ==
    /\ pc["main"] = "NewStream"
    /\ LET call == [Call EXCEPT !.newStreams = @ + 1] IN
       \/ /\ nFail < MaxNewStreamFailures
          /\ nFail' = nFail + 1
          /\ dones' = doneOnNewStreamErr(dones, curDone, "ConnectionError")
          /\ curDone' = 0
          /\ IF retryNewStream
             THEN /\ calls' = [calls EXCEPT ![cur] = call]
                  /\ pc' = [pc EXCEPT !["main"] = "attempt"]
                  /\ UNCHANGED <<result, resultFrom>>
             ELSE ncsReturnErr(call, toRPCErr("ConnectionError"))
       \/ /\ calls' = [calls EXCEPT ![cur] =
                           [call EXCEPT !.cs = TRUE, !.done = curDone]]
          /\ pc' = IF desc # unaryStreamDesc
                   THEN [pc EXCEPT !["main"] = "stream", !["recv"] = "stream",
                                   !["watch"] = "select"]
                   ELSE [pc EXCEPT !["main"] = "SendMsg"]
          /\ result' = IF entry = "NewStream" THEN "nil" ELSE result
          /\ curDone' = 0
          /\ UNCHANGED <<nFail, dones, resultFrom>>
    /\ UNCHANGED <<config, nonRPC,
                   ctxErr, ccCtxDone, picker, pickerVer, lv,
                   pickedVer, firstAttempt, unproc, opsLeft>>


\* ------------------------------------------------------------------ finish
\* The goroutine that calls RecvMsg: invoke's own, or the stream's reader.
receiver == IF entry = "Invoke" THEN "main" ELSE "recv"

\* The call of cs.finish(err) by goroutine t running operation op, which
\* returns err once finish has returned.
callFinish(t, op, n, err, ret) ==
    /\ pc' = [pc EXCEPT ![t] = "finish"]
    /\ lv' = [lv EXCEPT ![t] = frame(op, n, err, ret, noRecv)]

\* Operation op of goroutine t returns err without calling finish.
return(t, op, n, err, ret) ==
    /\ pc' = [pc EXCEPT ![t] = ret]
    /\ lv' = [lv EXCEPT ![t] = frame(op, n, err, ret, noRecv)]

\* (mutant) finish without the test of io.EOF
finishErrRaw(err) == err

\* if err == io.EOF { err = nil }
finishErr(err) == IF err = "EOF" THEN "nil" ELSE err

\* (mutant) finish without the test of cs.finished
neverFinished(call) == FALSE

\* if cs.finished { cs.mu.Unlock(); return }
alreadyFinished(call) == call.finished

\* The critical section of clientStream.finish: test and set of cs.finished
\* under cs.mu.
FinishLock(t) ==
    /\ pc[t] = "finish"
    /\ IF alreadyFinished(Call)
       THEN /\ pc' = [pc EXCEPT ![t] = lv[t].ret]
            /\ UNCHANGED calls
       ELSE /\ pc' = [pc EXCEPT ![t] = "finishBody"]
            /\ calls' = [calls EXCEPT ![cur].finished = TRUE]
    /\ UNCHANGED <<config, nonRPC,
                   ctxErr, ccCtxDone, picker, pickerVer, nFail, dones,
                   lv, pickedVer, curDone, firstAttempt, unproc, opsLeft,
                   result, resultFrom>>

\* csAttempt.finish: CloseStream, the done callback, the stats End event.
attemptFinish(call, err) ==
    [call EXCEPT !.closeStreams = @ + 1,
                 !.closeErr = err,
                 !.ends = IF sh THEN @ + 1 ELSE @,
                 !.endErr = IF sh THEN err ELSE @]

\* if a.done != nil { a.done(balancer.DoneInfo{Err: err, BytesSent: true,
\* BytesReceived: a.s.BytesReceived()}) }
doneOnFinish(ds, call, err) ==
    IF call.done # 0
    THEN [ds EXCEPT ![call.done].fired = @ + 1,
                    ![call.done].Err = err,
                    ![call.done].BytesSent = TRUE,
                    ![call.done].BytesReceived = call.bytesReceived,
                    ![call.done].from = "finish"]
    ELSE ds

\* The rest of clientStream.finish: cs.attempt.finish(err), the options'
\* after hooks, cs.cancel().
FinishBody(t) ==
    /\ pc[t] = "finishBody"
    /\ LET err == finishErr(lv[t].err) IN
        /\ dones' = doneOnFinish(dones, Call, err)
        /\ calls' = [calls EXCEPT ![cur] =
               cancelled([attemptFinish(Call, err) EXCEPT !.afters = @ + 1])]
    /\ pc' = [pc EXCEPT ![t] = lv[t].ret]
    /\ UNCHANGED <<config, nonRPC,
                   ctxErr, ccCtxDone, picker, pickerVer, nFail, lv,
                   pickedVer, curDone, firstAttempt, unproc, opsLeft, result,
                   resultFrom>>

\* ----------------------------------------------------------------- SendMsg
\* (mutant) no limit on the payload
neverTooLarge(n) == FALSE

\* len(payload) > *cs.c.maxSendMessageSize
tooLarge(n) == n > c.maxSendMessageSize

\* The deferred function of sendMsg: a non-client-streaming RPC gets nil
\* instead of io.EOF.
sendErr(err) == IF err = "EOF" /\ ~desc.ClientStreams THEN "nil" ELSE err

\* if err != nil && err != io.EOF { cs.finish(err) }
sendFinishes(err) == err # "nil" /\ err # "EOF"

\* What the transport's Write returned.
writeErr(wrote) == IF wrote THEN "nil" ELSE "ConnectionError"

\* (mutant) every message is written as the last one
lastAlways(d) == TRUE

\* Last: !cs.desc.ClientStreams
lastOf(d) == ~d.ClientStreams

\* if !cs.desc.ClientStreams { cs.sentLast = true }
\* a.t.Write(a.s, hdr, payload, &transport.Options{Last: !cs.desc.ClientStreams})
written(call, wrote) ==
    [call EXCEPT !.sentLast = IF ~desc.ClientStreams THEN TRUE ELSE @,
                 !.writes = Append(@, [by |-> "SendMsg",
                                       Last |-> lastOf(desc),
                                       err |-> writeErr(wrote)])]

\* (mutant) the error of Write returned as it is
writeResultRaw(wrote) == IF wrote THEN "nil" ELSE toRPCErr(writeErr(wrote))

\* err = a.t.Write(...); if err == nil { ...; return nil }; return io.EOF
writeResult(wrote) == IF wrote THEN "nil" ELSE "EOF"

\* Where SendMsg and RecvMsg return to: invoke looks at the error, the user
\* of a stream goes on.
after(op) == IF entry = "Invoke" THEN op \o "Ret" ELSE "stream"

\* csAttempt.sendMsg for a message whose payload is n bytes long; encoded
\* tells whether encode and compress succeed (there is no payload if they do
\* not), wrote whether Write does.
SendMsg ==
    /\ pc["main"] = (IF entry = "Invoke" THEN "SendMsg" ELSE "stream")
    /\ opsLeft > 0
    /\ opsLeft' = IF entry = "Invoke" THEN opsLeft ELSE opsLeft - 1
    /\ \E n \in 1..(MaxSendSize + 1), encoded \in BOOLEAN, wrote \in BOOLEAN :
        LET raw == IF ~encoded THEN "Internal"
                   ELSE IF tooLarge(n) THEN "ResourceExhausted"
                   ELSE writeResult(wrote)
            err == sendErr(raw)
        IN  /\ calls' = IF encoded /\ ~tooLarge(n)
                        THEN [calls EXCEPT ![cur] = written(Call, wrote)]
                        ELSE calls
            /\ IF sendFinishes(err)
               THEN callFinish("main", "SendMsg", IF encoded THEN n ELSE 0,
                               err, after("SendMsg"))
               ELSE return("main", "SendMsg", n, err, after("SendMsg"))
    /\ UNCHANGED <<config, nonRPC,
                   ctxErr, ccCtxDone, picker, pickerVer, nFail, dones,
                   pickedVer, curDone, firstAttempt, unproc, result,
                   resultFrom>>

\* (mutant) closeSend without the test of cs.sentLast
neverSentLast(call) == FALSE

\* if cs.sentLast { return }
alreadySentLast(call) == call.sentLast

\* csAttempt.closeSend: the error of its Write is ignored.
CloseSend ==
    /\ entry = "NewStream"
    /\ pc["main"] = "stream"
    /\ opsLeft > 0
    /\ opsLeft' = opsLeft - 1
    /\ calls' = IF alreadySentLast(Call)
                THEN calls
                ELSE [calls EXCEPT ![cur].sentLast = TRUE,
                                   ![cur].writes = Append(@,
                                       [by |-> "CloseSend", Last |-> TRUE,
                                        err |-> "ignored"])]
    /\ return("main", "CloseSend", 0, "nil", "stream")
    /\ UNCHANGED <<config, nonRPC,
                   ctxErr, ccCtxDone, picker, pickerVer, nFail, dones,
                   pickedVer, curDone, firstAttempt, unproc, result,
                   resultFrom>>

\* clientStream.Header: an error of the transport stream's Header is returned
\* through toRPCErr after finish.
Header ==
    /\ entry = "NewStream"
    /\ pc["main"] = "stream"
    /\ opsLeft > 0
    /\ opsLeft' = opsLeft - 1
    /\ \/ return("main", "Header", 0, "nil", "stream")
       \/ callFinish("main", "Header", 0, toRPCErr("ConnectionError"),
                     "stream")
    /\ UNCHANGED <<config, nonRPC,
                   ctxErr, ccCtxDone, picker, pickerVer, nFail, calls,
                   dones, pickedVer, curDone, firstAttempt, unproc, result,
                   resultFrom>>


\* ----------------------------------------------------------------- RecvMsg
\* What one recv(...) on the transport stream yields: a message, the end of
\* the stream, or a transport error.
RecvOutcomes == {"msg", "EOF", "ConnectionError"}

\* (mutant) the status of the stream is not looked at
statusIgnored(status) == "nil"

\* a.s.Status().Err()
statusErr(status) == IF status = "OK" THEN "nil" ELSE status

\* The error csAttempt.recvMsg returns, from what the first and (for a
\* non-server-streaming RPC) the second recv yield and the stream's status.
recvMsgErr(first, second, status) ==
    IF first # "msg"
    THEN IF first = "EOF"
         THEN IF statusErr(status) # "nil" THEN statusErr(status) ELSE "EOF"
         ELSE toRPCErr(first)
    ELSE IF desc.ServerStreams THEN "nil"
    ELSE IF second = "msg" THEN toRPCErr("error")
    ELSE IF second = "EOF" THEN statusErr(status)
    ELSE toRPCErr(second)

\* What the last recvMsg read from the transport stream: the outcome of the
\* first recv, of the second if there was one, and the stream's status if
\* Status() was called.
received(first, second, status) ==
    LET two == first = "msg" /\ ~desc.ServerStreams IN
    [first |-> first,
     second |-> IF two THEN second ELSE "none",
     status |-> IF first = "EOF" \/ (two /\ second = "EOF")
                THEN status ELSE "none"]

\* (mutant) finish on an error only
recvFinishesOnErr(err) == err # "nil"

\* if err != nil || !cs.desc.ServerStreams { cs.finish(err) }
recvFinishes(err) == err # "nil" \/ ~desc.ServerStreams

\* csAttempt.recvMsg
RecvMsg ==
    /\ pc[receiver] = (IF entry = "Invoke" THEN "RecvMsg" ELSE "stream")
    /\ opsLeft > 0
    /\ opsLeft' = IF entry = "Invoke" THEN opsLeft ELSE opsLeft - 1
    /\ \E first \in RecvOutcomes, second \in RecvOutcomes,
          status \in ServerStatus :
        LET err == recvMsgErr(first, second, status) IN
        /\ calls' = [calls EXCEPT ![cur].bytesReceived = @ \/ first = "msg"]
        /\ pc' = [pc EXCEPT ![receiver] = IF recvFinishes(err) THEN "finish"
                                          ELSE after("RecvMsg")]
        /\ lv' = [lv EXCEPT ![receiver] =
                    frame("RecvMsg", 0, err, after("RecvMsg"),
                          received(first, second, status))]
    /\ UNCHANGED <<config, nonRPC,
                   ctxErr, ccCtxDone, picker, pickerVer, nFail, dones,
                   pickedVer, curDone, firstAttempt, unproc, result,
                   resultFrom>>

\* ------------------------------------------------------------------ invoke
\* (mutant) a retry after every unprocessed attempt
retryEveryAttempt(unprocessed) == ~c.failFast /\ unprocessed

\* !cs.c.failFast && cs.attempt.s.Unprocessed() && firstAttempt
shouldRetry(unprocessed) == ~c.failFast /\ unprocessed /\ firstAttempt

\* invoke after an operation of the stream returned lv["main"].err (which
\* goes out of scope when invoke loops): the
\* transparent retry, the error return, or the next operation. unprocessed
\* is what the transport stream's Unprocessed() answers.
InvokeAfter(op, next) ==
    /\ entry = "Invoke"
    /\ pc["main"] = op \o "Ret"
    /\ IF lv["main"].err # "nil"
       THEN \E unprocessed \in BOOLEAN :
              /\ unproc' = unprocessed
              /\ IF shouldRetry(unprocessed)
                 THEN /\ firstAttempt' = FALSE
                      /\ pc' = [pc EXCEPT !["main"] = "newClientStream"]
                      /\ lv' = [lv EXCEPT !["main"] =
                                  frame("none", 0, "nil", "off", noRecv)]
                      /\ UNCHANGED <<result, resultFrom>>
                 ELSE /\ pc' = [pc EXCEPT !["main"] = "done"]
                      /\ result' = lv["main"].err
                      /\ resultFrom' = op
                      /\ UNCHANGED <<firstAttempt, lv>>
       ELSE /\ pc' = [pc EXCEPT !["main"] = next]
            /\ result' = IF next = "done" THEN "nil" ELSE result
            /\ UNCHANGED <<resultFrom, firstAttempt, unproc, lv>>
    /\ UNCHANGED <<config, nonRPC,
                   ctxErr, ccCtxDone, picker, pickerVer, nFail, calls,
                   dones, pickedVer, curDone, opsLeft>>

InvokeAfterSend == InvokeAfter("SendMsg", "RecvMsg")

InvokeAfterRecv == InvokeAfter("RecvMsg", "done")

\* ------------------------------------------- the goroutine of a stream
\* (mutant) a select without the case <-ctx.Done()
watchCasesCcOnly == {w \in {"cc"} : ccCtxDone}

\* (mutant) a select without the case <-cc.ctx.Done()
watchCasesCtxOnly == {w \in {"ctx"} : Call.ctx # "nil"}

\* The cases of the goroutine's select that are ready.
watchCases ==
    {w \in {"cc", "ctx"} : (w = "cc" /\ ccCtxDone) \/ (w = "ctx" /\ Call.ctx # "nil")}

\* select { case <-cc.ctx.Done(): cs.finish(ErrClientConnClosing)
\*          case <-ctx.Done(): cs.finish(toRPCErr(ctx.Err())) }
Watch ==
    /\ pc["watch"] = "select"
    /\ \E w \in watchCases :
        callFinish("watch", "watch", 0,
                   IF w = "cc" THEN "ErrClientConnClosing"
                               ELSE toRPCErr(Call.ctx),
                   "exit")
    /\ UNCHANGED <<config, nonRPC,
                   ctxErr, ccCtxDone, picker, pickerVer, nFail, calls,
                   dones, pickedVer, curDone, firstAttempt, unproc, opsLeft,
                   result, resultFrom>>

\* ------------------------------------------------------------- environment
\* The environment is followed as long as the RPC can observe it: invoke
\* until it returns, a stream until its context is done and its goroutine
\* has left the select.
Active ==
    /\ pc["main"] # "done"
    /\ entry = "NewStream" /\ cur > 0 => Call.ctx = "nil" \/ ~Call.cs

\* The caller's context ends with err (cancelled, or its deadline elapsed);
\* so does every context derived from it that is not done yet.
CallerCtxDone(err) ==
    /\ Active
    /\ ctxErr = "nil"
    /\ ctxErr' = err
    /\ calls' = [k \in DOMAIN calls |->
                    [calls[k] EXCEPT !.ctx = IF @ = "nil" THEN err ELSE @]]
    /\ UNCHANGED <<config, nonRPC,
                   ccCtxDone, picker, pickerVer, nFail, dones, pc, lv,
                   pickedVer, curDone, firstAttempt, unproc, opsLeft, result,
                   resultFrom>>

\* The timer of context.WithTimeout(ctx, *mc.Timeout) fires.
Timeout ==
    /\ Active
    /\ cur > 0
    /\ Call.ctx = "nil"
    /\ calls' = [calls EXCEPT ![cur].ctx = "DeadlineExceeded"]
    /\ UNCHANGED <<config, nonRPC,
                   ctxErr, ccCtxDone, picker, pickerVer, nFail, dones,
                   pc, lv, pickedVer, curDone, firstAttempt, unproc, opsLeft,
                   result, resultFrom>>

\* ClientConn.Close cancels cc.ctx.
CloseCC ==
    /\ pc["main"] # "done"
    /\ pc["watch"] \in {"off", "select"}
    /\ ~ccCtxDone
    /\ ccCtxDone' = TRUE
    /\ UNCHANGED <<config, nonRPC,
                   ctxErr, picker, pickerVer, nFail, calls, dones, pc,
                   lv, pickedVer, curDone, firstAttempt, unproc, opsLeft,
                   result, resultFrom>>

\* The balancer installs a new picker with UpdateBalancerState. (A picker
\* installed at another time is seen by the next getTransport exactly as one
\* installed when it starts.)
UpdateBalancerState(kind) ==
    /\ pc["main"] = "getTransport"
    /\ pickerVer < MaxPickerUpdates
    /\ pickerVer' = pickerVer + 1
    /\ picker' = kind
    /\ UNCHANGED <<config, nonRPC,
                   ctxErr, ccCtxDone, nFail, calls, dones, pc, lv,
                   pickedVer, curDone, firstAttempt, unproc, opsLeft, result,
                   resultFrom>>

\* ------------------------------------------------------ the specification
\* The steps of newClientStream.
NcsNext ==
    \/ NcsBegin
    \/ NcsAttempt
    \/ Pick
    \/ PickCtxDone
    \/ NewStream

\* The caller's context ends, or the timeout of the MethodConfig elapses.
CtxNext ==
    \/ \E err \in {"Canceled", "DeadlineExceeded"} : CallerCtxDone(err)
    \/ Timeout

\* ClientConn.Invoke and its environment.
Next ==
    \/ NcsNext
    \/ SendMsg
    \/ RecvMsg
    \/ InvokeAfterSend
    \/ InvokeAfterRecv
    \/ FinishLock("main")
    \/ FinishBody("main")
    \/ CtxNext
    \/ \E kind \in PickerKinds : UpdateBalancerState(kind)

Spec == Init /\ [][Next]_vars

\* ClientConn.NewStream, the goroutines that use the stream, the goroutine
\* newClientStream starts, and their environment.
StreamNext ==
    \/ NcsNext
    \/ SendMsg
    \/ CloseSend
    \/ Header
    \/ RecvMsg
    \/ Watch
    \/ \E t \in Threads : FinishLock(t)
    \/ \E t \in Threads : FinishBody(t)
    \/ CtxNext
    \/ CloseCC

StreamSpec == StreamInit /\ [][StreamNext]_vars


\* The goroutines of the Go runtime are scheduled fairly: a goroutine inside
\* finish goes on, and the stream's goroutine takes a ready case of its select.
FairStreamSpec ==
    /\ StreamSpec
    /\ WF_vars(Watch)
    /\ \A t \in Threads : WF_vars(FinishLock(t)) /\ WF_vars(FinishBody(t))

\* ------------------------------------------------------------------ claims
\* The goroutine t is not inside finish.
Returned(t) == pc[t] \notin {"finish", "finishBody"}

\* A clientStream was returned by the current call of newClientStream.
HasStream == cur > 0 /\ Call.cs

\* C1: whatever the interleaving of the goroutines that call finish (the
\* stream's goroutine, RecvMsg, SendMsg, Header), the body of finish runs at
\* most once per stream: CloseStream, the done callback, the stats End event,
\* the after hooks and cancel happen at most once.
C1_FinishBodyAtMostOnce ==
    \A k \in DOMAIN calls :
        /\ calls[k].closeStreams <= 1
        /\ calls[k].ends <= 1
        /\ calls[k].afters <= 1
        /\ calls[k].cancels <= 1
        /\ calls[k].done # 0 => dones[calls[k].done].fired <= 1

\* Three goroutines have called finish on one stream, and all have returned.
C1_Witness ==
    /\ HasStream
    /\ pc["watch"] = "exit"
    /\ pc["main"] = "stream" /\ lv["main"].op \in {"SendMsg", "Header"}
    /\ lv["main"].err \notin {"nil", "EOF"}
    /\ pc["recv"] = "stream" /\ lv["recv"].op = "RecvMsg"
    /\ lv["recv"].err # "nil"
    /\ Call.closeStreams = 1 /\ Call.cancels = 1 /\ Call.done # 0

\* finish has run on the stream: cs.finished is set and the stream's context
\* is cancelled.
Finished == HasStream /\ Call.finished /\ Call.cancels >= 1 /\ Call.ctx # "nil"

\* The events after which the stream must not leak.
LeakAvoidanceEvent ==
    /\ HasStream
    /\ \/ ccCtxDone
       \/ Call.ctx # "nil"
       \/ pc["recv"] = "stream" /\ lv["recv"].op = "RecvMsg"
            /\ lv["recv"].err # "nil"
       \/ pc["main"] = "stream" /\ lv["main"].op = "Header"
            /\ lv["main"].err # "nil"
       \/ pc["main"] = "stream" /\ lv["main"].op = "SendMsg"
            /\ lv["main"].err \notin {"nil", "EOF"}

\* C2: for a stream NewStream returned, closing the ClientConn, the end of the
\* stream's context, a non-nil error of RecvMsg, an error of Header and a
\* non-nil, non-EOF error of SendMsg each lead to finish having run.
C2_LeakAvoidance == LeakAvoidanceEvent ~> Finished

\* The ClientConn was closed and the stream's goroutine finished the stream.
C2_Witness ==
    /\ Finished
    /\ ccCtxDone
    /\ Call.closeErr = "ErrClientConnClosing"
    /\ opsLeft = MaxUserOps


\* C3: in invoke, a stream newClientStream returned is finished (cs.finished
\* set, its context cancelled) before invoke returns or creates the next
\* stream, on every path; so no two unfinished streams exist at any time.
C3_InvokeFinishesStreams ==
    /\ \A k \in DOMAIN calls :
          (k < cur \/ pc["main"] \in {"newClientStream", "done"}) /\ calls[k].cs
              => /\ calls[k].finished
                 /\ calls[k].closeStreams = 1
                 /\ calls[k].cancels = 1
                 /\ calls[k].ctx # "nil"
    /\ Cardinality({k \in DOMAIN calls :
                       calls[k].cs /\ ~calls[k].finished}) <= 1

\* invoke returned after two streams: one retried, one that ended the RPC.
C3_Witness ==
    /\ entry = "Invoke"
    /\ pc["main"] = "done"
    /\ Len(calls) = 2
    /\ calls[1].cs /\ calls[2].cs
    /\ calls[1].finished /\ calls[2].finished

\* The stream, if any, that took the done callback d.
StreamsOf(d) == {k \in DOMAIN calls : calls[k].cs /\ calls[k].done = d}

\* C4: a non-nil done callback returned by getTransport is called at most
\* once: with DoneInfo{Err: err} when NewStream fails on its pick, in which
\* case no stream takes it, or by finish of the stream that took it; it is
\* called exactly once when its attempt has ended, never kept for a later
\* pick, and a nil callback is never called. After a unary RPC that returned
\* nil the done callback of its stream was called once with a nil error.
C4_DoneExactlyOnce ==
    /\ \A d \in DOMAIN dones :
        LET D == dones[d] IN
        /\ D.fired <= 1
        /\ ~D.nonNil => D.fired = 0 /\ StreamsOf(d) = {}
        /\ Cardinality(StreamsOf(d)) <= 1
        /\ \A k \in StreamsOf(d) : D.call = k
        /\ D.from = "NewStream" =>
              D.fired = 1 /\ D.Err = "ConnectionError" /\ StreamsOf(d) = {}
        /\ D.from = "finish" =>
              D.fired = 1 /\ StreamsOf(d) # {} /\ D.BytesSent
        /\ \A k \in StreamsOf(d) :
              (calls[k].closeStreams = 1 <=> D.fired = 1) /\ D.from # "NewStream"
        /\ D.nonNil /\ pc["main"] = "done" => D.fired = 1
        /\ D.nonNil /\ d # curDone /\ StreamsOf(d) = {} => D.fired = 1
    /\ curDone # 0 => curDone = Len(dones) /\ pc["main"] = "NewStream"
    /\ entry = "Invoke" /\ result = "nil" /\ Call.done # 0 =>
           dones[Call.done].fired = 1 /\ dones[Call.done].Err = "nil"

\* A done callback was called because NewStream failed, a later one by
\* finish of the stream of a successful unary RPC.
C4_Witness ==
    /\ entry = "Invoke"
    /\ result = "nil"
    /\ Len(dones) >= 2
    /\ dones[1].from = "NewStream" /\ dones[1].fired = 1
    /\ dones[Len(dones)].from = "finish" /\ dones[Len(dones)].Err = "nil"

\* The call's context ended other than by the cancel of finish or of
\* newClientStream's error return.
CtxEnded ==
    \/ ctxErr # "nil"
    \/ \E k \in DOMAIN calls : calls[k].ctx = "DeadlineExceeded"

\* C5 as claimed: under wait-for-ready a call returns Unavailable only after
\* its context has expired or been cancelled.
C5_UnavailableOnlyAfterCtxDone ==
    ~c.failFast /\ result = "Unavailable" => CtxEnded

\* C5 as amended: under wait-for-ready a call does not return Unavailable
\* for a pick that says to block (no SubConn, a SubConn that is not READY,
\* transient failure) or for a failure of the transport's NewStream; an
\* Unavailable it returns is the answer to a pick that failed with another
\* error, or the error RecvMsg returned.
C5_UnavailableOnlyFromPickErrOrRecv ==
    ~c.failFast /\ result = "Unavailable" =>
        \/ resultFrom = "newClientStream" /\ Call.lastPick = "ErrOther"
        \/ resultFrom = "RecvMsg" /\ Call.cs

\* A wait-for-ready RPC whose NewStream failed, and was retried, returned the
\* Unavailable of RecvMsg while its context was live.
C5_Witness ==
    /\ ~c.failFast
    /\ result = "Unavailable"
    /\ resultFrom = "RecvMsg"
    /\ nFail >= 1
    /\ ~CtxEnded


\* The transport's NewStream fails: nothing was written to the wire.
NewStreamFails == pc["main"] = "NewStream" /\ nFail' = nFail + 1

C6_FailFastTransientFailure ==
    \A k \in DOMAIN calls :
        c.failFast /\ calls[k].lastPick = "ErrTransientFailure" =>
            /\ pc["main"] = "done"
            /\ result = "Unavailable"
            /\ resultFrom = "newClientStream"
            /\ Len(calls) = 1
            /\ calls[k].ctxChecks = 1
            /\ calls[k].getTransports = 1
            /\ calls[k].newStreams = 0
            /\ calls[k].picks \in 1..(pickerVer + 1)
            /\ ~calls[k].cs
            /\ dones = <<>>

\* A fail-fast call failed on the first answer of its first picker.
C6_Witness ==
    /\ c.failFast
    /\ cur = 1
    /\ Call.lastPick = "ErrTransientFailure"
    /\ Call.picks = 1
    /\ pickerVer = 0
    /\ result = "Unavailable"

\* getTransport evaluates the picker in this step.
PickStep == cur > 0 /\ cur' = cur /\ calls'[cur].picks = Call.picks + 1

\* getTransport is blocked until the next picker.
Blocked == pc["main"] = "getTransport" /\ pickedVer = pickerVer

\* newClientStream has returned err from getTransport.
PickFailed(err) ==
    pc["main"] = "done" /\ result = err /\ resultFrom = "newClientStream"

InvokeErrStep ==
    /\ pc["main"] \in {"SendMsgRet", "RecvMsgRet"}
    /\ pc'["main"] # pc["main"]
    /\ lv["main"].err # "nil"

\* C8: invoke retries at most once: it creates a new stream only after
\* SendMsg or RecvMsg failed with fail-fast false, Unprocessed() true and
\* firstAttempt true, and then clears firstAttempt; every other error,
\* a second unprocessed one included, is returned; newClientStream is called
\* at most twice.
C8_AtMostOneRetry ==
    [][/\ Len(calls') <= 2
       /\ InvokeErrStep =>
            IF ~c.failFast /\ unproc' /\ firstAttempt
            THEN pc'["main"] = "newClientStream" /\ ~firstAttempt'
                 /\ result' = "pending"
            ELSE pc'["main"] = "done" /\ result' = lv["main"].err
                 /\ firstAttempt' = firstAttempt
       /\ pc'["main"] = "newClientStream" /\ pc["main"] # "newClientStream" =>
            InvokeErrStep /\ firstAttempt /\ Len(calls) = 1]_vars

\* After its retry invoke returned the error of a second unprocessed stream.
C8_Witness ==
    /\ pc["main"] = "done"
    /\ Len(calls) = 2
    /\ calls[2].cs
    /\ unproc
    /\ ~c.failFast
    /\ ~firstAttempt
    /\ result \notin {"nil", "pending"}

\* C9: an iteration of the attempt loop that starts with the stream's
\* context done returns the status of the context's error (DeadlineExceeded,
\* Canceled) and does not pick; so a wait-for-ready call whose NewStream
\* keeps failing stops looping once its context is done.
C9_AttemptLoopChecksCtx ==
    [][pc["main"] = "attempt" /\ pc'["main"] # "attempt" /\ Call.ctx # "nil" =>
          /\ pc'["main"] = "done"
          /\ result' = Call.ctx
          /\ result' \in {"DeadlineExceeded", "Canceled"}
          /\ resultFrom' = "newClientStream"
          /\ calls'[cur].getTransports = Call.getTransports
          /\ calls'[cur].picks = Call.picks
          /\ calls'[cur].newStreams = Call.newStreams]_vars

\* A wait-for-ready call whose NewStream had failed returned the error of
\* its context from the top of the next iteration.
C9_Witness ==
    /\ ~c.failFast
    /\ cur > 0
    /\ Call.newStreams >= 1
    /\ Call.ctxChecks = Call.newStreams + 1
    /\ Call.getTransports = Call.newStreams
    /\ pc["main"] = "done"
    /\ result = "DeadlineExceeded"

\* C10: SendMsg of a message whose payload is longer than
\* maxSendMessageSize returns ResourceExhausted after calling finish with
\* that error, and does not call the transport's Write; when invoke sees the
\* error the stream is finished with it and nothing was written.
C10_OversizeNotWritten ==
    [][/\ pc["main"] = "SendMsg" /\ pc'["main"] # "SendMsg"
            /\ lv'["main"].n > c.maxSendMessageSize =>
          /\ pc'["main"] = "finish"
          /\ lv'["main"].err = "ResourceExhausted"
          /\ calls'[cur].writes = Call.writes
       /\ pc'["main"] = "SendMsgRet" /\ lv'["main"].n > c.maxSendMessageSize =>
          /\ lv'["main"].err = "ResourceExhausted"
          /\ calls'[cur].finished
          /\ calls'[cur].closeErr = "ResourceExhausted"
          /\ calls'[cur].writes = <<>>]_vars

\* invoke returned the ResourceExhausted of an oversize message.
C10_Witness ==
    /\ pc["main"] = "done"
    /\ lv["main"].op = "SendMsg"
    /\ lv["main"].n > c.maxSendMessageSize
    /\ result = "ResourceExhausted"
    /\ Call.writes = <<>>
    /\ Call.closeErr = "ResourceExhausted"


\* The transport's Write fails inside SendMsg in this step.
SendWriteFails ==
    /\ HasStream
    /\ cur' = cur
    /\ Len(calls'[cur].writes) = Len(Call.writes) + 1
    /\ calls'[cur].writes[Len(calls'[cur].writes)].by = "SendMsg"
    /\ calls'[cur].writes[Len(calls'[cur].writes)].err # "nil"

\* C11: when the transport's Write fails inside SendMsg, SendMsg returns
\* io.EOF on a client-streaming RPC and nil on any other, never the
\* transport's error, and returns without calling finish: the stream is as
\* finished as it was, and is left for RecvMsg to report the error.
C11_WriteErrorIsEOF ==
    [][SendWriteFails =>
          /\ lv'["main"].op = "SendMsg"
          /\ lv'["main"].err = (IF desc.ClientStreams THEN "EOF" ELSE "nil")
          /\ pc'["main"] = "stream"
          /\ calls'[cur].finished = Call.finished
          /\ calls'[cur].closeStreams = Call.closeStreams]_vars

\* SendMsg of a client-streaming RPC returned io.EOF for a failed Write and
\* the stream is not finished.
C11_Witness ==
    /\ HasStream
    /\ desc.ClientStreams
    /\ pc["main"] = "stream"
    /\ lv["main"].op = "SendMsg"
    /\ lv["main"].err = "EOF"
    /\ Call.writes # <<>>
    /\ Call.writes[Len(Call.writes)].err = "ConnectionError"
    /\ ~Call.finished


\* The last RecvMsg of the stream's reader, and what it read.
LastRecvMsg == lv[receiver]

RecvMsgCalled == HasStream /\ LastRecvMsg.op = "RecvMsg"

\* C12: a RecvMsg that reaches the end of the stream returns the stream's
\* status if that is not OK; if it is OK, io.EOF on a server-streaming RPC
\* and nil on a non-server-streaming RPC that had received its one message.
\* RecvMsg calls finish whenever the RPC is not server-streaming or the error
\* is not nil, and returns without calling finish from a successful RecvMsg
\* of a server-streaming RPC.
C12_RecvMsgEndOfStream ==
    RecvMsgCalled =>
        LET r == LastRecvMsg
            k == r.recv
            end == k.first = "EOF" \/ k.second = "EOF"
        IN  /\ end /\ k.status # "OK" => r.err = k.status
            /\ end /\ k.status = "OK" /\ desc.ServerStreams => r.err = "EOF"
            /\ end /\ k.status = "OK" /\ k.first = "msg" => r.err = "nil"
            /\ ~desc.ServerStreams \/ r.err # "nil" =>
                   \/ pc[receiver] \in {"finish", "finishBody"}
                   \/ Call.finished
            /\ desc.ServerStreams /\ r.err = "nil" =>
                   /\ pc[receiver] = "stream"
                   /\ k.first = "msg"

\* A non-server-streaming RPC got its message and then the end of the stream
\* with status OK: RecvMsg returned nil and the stream is finished.
C12_Witness ==
    /\ RecvMsgCalled
    /\ ~desc.ServerStreams
    /\ LastRecvMsg.recv = [first |-> "msg", second |-> "EOF", status |-> "OK"]
    /\ LastRecvMsg.err = "nil"
    /\ pc[receiver] = "stream"
    /\ Call.finished


\* The second recv of a non-server-streaming RecvMsg yielded another message.
ExtraMessage ==
    /\ RecvMsgCalled
    /\ ~desc.ServerStreams
    /\ LastRecvMsg.recv.first = "msg"
    /\ LastRecvMsg.recv.second = "msg"

\* C13: when the second recv of a non-server-streaming RecvMsg yields another
\* message instead of the end of the stream, RecvMsg returns an error whose
\* status code is Internal.
C13_ExtraMessageIsInternal == ExtraMessage => LastRecvMsg.err = "Internal"


\* ------------------------------------------------- the resolver wrapper
\* (mutant) no drain before the send
undrained(ch) == ch

\* select { case <-ch: default: }: a pending value is dropped.
drained(ch) == <<>>

\* A goroutine is inside the method that publishes to channel ch.
Publishing(ch) == \E p \in Publishers : publishers[p].pc = ch

\* The log, where one is kept, with value v of channel ch added to what was
\* published or to what was delivered.
logged(log, what, ch, v) ==
    IF log = <<>> THEN log
    ELSE <<[log[1] EXCEPT ![what] = Append(@, [ch |-> ch, v |-> v])]>>

\* The record of a call of NewAddress or NewServiceConfig with argument v.
calledWith(ch, v) ==
    [published EXCEPT ![ch] = [last |-> v, raced |-> @.raced \/ Publishing(ch)],
                      !.left = @ - 1,
                      !.log = logged(@, "published", ch, v)]

\* ccResolverWrapper.NewAddress(addrs), up to its send: the resolver reports
\* resolution r, of which NewAddress takes the addresses.
NewAddress(p, r) ==
    /\ publishers[p].pc = "idle"
    /\ published.left > 0
    /\ ccr' = [ccr EXCEPT !.addrCh = drained(@)]
    /\ publishers' = [publishers EXCEPT ![p] = [pc |-> "addr", val |-> r.addrs]]
    /\ published' = calledWith("addr", r.addrs)
    /\ UNCHANGED <<nonResolver, watcher, handler>>

\* ccr.addrCh <- addrs: blocks while the channel is full.
NewAddressSend(p) ==
    /\ publishers[p].pc = "addr"
    /\ ccr.addrCh = <<>>
    /\ ccr' = [ccr EXCEPT !.addrCh = <<publishers[p].val>>]
    /\ publishers' = [publishers EXCEPT ![p] = [pc |-> "idle", val |-> "none"]]
    /\ UNCHANGED <<nonResolver, watcher, published, handler>>

\* ccResolverWrapper.NewServiceConfig(sc), up to its send.
NewServiceConfig(p, sc) ==
    /\ publishers[p].pc = "idle"
    /\ published.left > 0
    /\ ccr' = [ccr EXCEPT !.scCh = drained(@)]
    /\ publishers' = [publishers EXCEPT ![p] = [pc |-> "sc", val |-> sc]]
    /\ published' = calledWith("sc", sc)
    /\ UNCHANGED <<nonResolver, watcher, handler>>

\* ccr.scCh <- sc: blocks while the channel is full.
NewServiceConfigSend(p) ==
    /\ publishers[p].pc = "sc"
    /\ ccr.scCh = <<>>
    /\ ccr' = [ccr EXCEPT !.scCh = <<publishers[p].val>>]
    /\ publishers' = [publishers EXCEPT ![p] = [pc |-> "idle", val |-> "none"]]
    /\ UNCHANGED <<nonResolver, watcher, published, handler>>

\* ccResolverWrapper.start: go ccr.watcher()
start ==
    /\ watcher.pc = "off"
    /\ watcher' = [watcher EXCEPT !.pc = "top"]
    /\ UNCHANGED <<nonResolver, ccr, publishers, published, handler>>

\* The first select of the watcher's loop: return if done is closed.
watcherTop ==
    /\ watcher.pc = "top"
    /\ watcher' = [pc |-> IF ccr.done THEN "returned" ELSE "select",
                   val |-> "none", deq |-> 0, made |-> 0]
    /\ UNCHANGED <<nonResolver, ccr, publishers, published, handler>>

\* (mutant) a receive that leaves the value in the channel
peeked(ch) == ch

\* addrs := <-ccr.addrCh, sc := <-ccr.scCh: the channel after the receive
recv(ch) == <<>>

\* The second select: one of its ready cases, whichever the runtime takes.
watcherSelect ==
    /\ watcher.pc = "select"
    /\ \/ /\ ccr.addrCh # <<>>
          /\ ccr' = [ccr EXCEPT !.addrCh = recv(@)]
          /\ watcher' = [watcher EXCEPT !.pc = "addrCheck",
                                        !.val = ccr.addrCh[1], !.deq = @ + 1]
       \/ /\ ccr.scCh # <<>>
          /\ ccr' = [ccr EXCEPT !.scCh = recv(@)]
          /\ watcher' = [watcher EXCEPT !.pc = "scCheck",
                                        !.val = ccr.scCh[1], !.deq = @ + 1]
       \/ /\ ccr.done
          /\ watcher' = [watcher EXCEPT !.pc = "returned"]
          /\ UNCHANGED ccr
    /\ UNCHANGED <<nonResolver, publishers, published, handler>>

\* The select on done after a value was received: return if done is closed.
watcherCheck ==
    /\ watcher.pc \in {"addrCheck", "scCheck"}
    /\ watcher' = [watcher EXCEPT
                     !.pc = IF ccr.done THEN "returned"
                            ELSE IF @ = "addrCheck" THEN "addrCall"
                            ELSE "scCall"]
    /\ UNCHANGED <<nonResolver, ccr, publishers, published, handler>>

\* (mutant) the handler is run in a goroutine of its own
handlerInGoroutine == FALSE

\* ccr.cc.handleResolvedAddrs(addrs, nil) and ccr.cc.handleServiceConfig(sc)
\* are plain calls: the watcher goes on when they return.
waitsForHandler == TRUE

\* ccr.cc.handleResolvedAddrs(addrs, nil)
handledErr(addrs) == "nil"

\* The watcher calls the handler of the ClientConn.
watcherCall ==
    /\ watcher.pc \in {"addrCall", "scCall"}
    /\ watcher' = [watcher EXCEPT !.pc = IF waitsForHandler THEN "handler"
                                        ELSE "top",
                                  !.made = @ + 1]
    /\ handler' = IF watcher.pc = "addrCall"
                  THEN [running |-> handler.running + 1,
                        fn |-> "handleResolvedAddrs", arg |-> watcher.val,
                        err |-> handledErr(watcher.val)]
                  ELSE [running |-> handler.running + 1,
                        fn |-> "handleServiceConfig", arg |-> watcher.val,
                        err |-> "none"]
    /\ published' = [published EXCEPT !.log =
           logged(@, "delivered",
                  IF watcher.pc = "addrCall" THEN "addr" ELSE "sc",
                  watcher.val)]
    /\ UNCHANGED <<nonResolver, ccr, publishers>>

\* The handler returns.
handlerReturn ==
    /\ handler.running > 0
    /\ handler' = [handler EXCEPT !.running = @ - 1]
    /\ watcher' = IF waitsForHandler
                  THEN [watcher EXCEPT !.pc = "top"]
                  ELSE watcher
    /\ UNCHANGED <<nonResolver, ccr, publishers, published>>

\* ccResolverWrapper.close: ccr.resolver.Close()
closeResolver ==
    /\ ~ccr.resolverClosed
    /\ ccr' = [ccr EXCEPT !.resolverClosed = TRUE]
    /\ UNCHANGED <<nonResolver, watcher, publishers, published, handler>>

\* ccResolverWrapper.close: close(ccr.done)
closeDone ==
    /\ ccr.resolverClosed
    /\ ~ccr.done
    /\ ccr' = [ccr EXCEPT !.done = TRUE]
    /\ UNCHANGED <<nonResolver, watcher, publishers, published, handler>>

\* The resolver wrapper of a ClientConn on which no RPC is running.
ResolverInit ==
    /\ Start({"Invoke"}) /\ c.failFast /\ picker = "Ready"
    /\ ci = noCallInfo
    /\ bal = newBalancer
    /\ fn = noFunction /\ reg = newRegistries
    /\ creds = NewTLS(<<>>)

ResolverNext ==
    \/ \E p \in Publishers, r \in Resolutions : NewAddress(p, r)
    \/ \E p \in Publishers : NewAddressSend(p)
    \/ \E p \in Publishers, sc \in ServiceConfigs : NewServiceConfig(p, sc)
    \/ \E p \in Publishers : NewServiceConfigSend(p)
    \/ start
    \/ watcherTop
    \/ watcherSelect
    \/ watcherCheck
    \/ watcherCall
    \/ handlerReturn
    \/ closeResolver
    \/ closeDone

ResolverSpec == ResolverInit /\ [][ResolverNext]_vars

\* The resolver wrapper of a ClientConn whose resolver publishes from one
\* goroutine and which is not closed.
WatchedResolverInit ==
    /\ StartRPC({"Invoke"}) /\ c.failFast /\ picker = "Ready"
    /\ oneResolverGoroutine
    /\ ci = noCallInfo
    /\ bal = newBalancer
    /\ fn = noFunction /\ reg = newRegistries
    /\ creds = NewTLS(<<>>)

WatchedResolverNext ==
    \/ \E p \in Publishers, r \in Resolutions : NewAddress(p, r)
    \/ \E p \in Publishers : NewAddressSend(p)
    \/ \E p \in Publishers, sc \in ServiceConfigs : NewServiceConfig(p, sc)
    \/ \E p \in Publishers : NewServiceConfigSend(p)
    \/ start
    \/ watcherTop
    \/ watcherSelect
    \/ watcherCheck
    \/ watcherCall
    \/ handlerReturn

\* The watcher is started and is scheduled, the handlers of the ClientConn
\* return, and a goroutine that has reached its send goes on when there is
\* room in the channel.
WatchedResolverSpec ==
    /\ WatchedResolverInit /\ [][WatchedResolverNext]_vars
    /\ WF_vars(start) /\ WF_vars(watcherTop) /\ WF_vars(watcherSelect)
    /\ WF_vars(watcherCheck) /\ WF_vars(watcherCall)
    /\ WF_vars(handlerReturn)
    /\ \A p \in Publishers :
          WF_vars(NewAddressSend(p)) /\ WF_vars(NewServiceConfigSend(p))


\* C14: each of addrCh and scCh holds at most one value, and after calls of
\* its publishing method that did not overlap one another, interleaved in any
\* way with the watcher, with close() and with the calls for the other
\* channel, the value it holds is the argument of the latest call.
C14_OneSlotOverwritingBuffer ==
    /\ Len(ccr.addrCh) <= 1
    /\ Len(ccr.scCh) <= 1
    /\ ccr.addrCh # <<>> /\ ~published.addr.raced =>
           ccr.addrCh[1] = published.addr.last
    /\ ccr.scCh # <<>> /\ ~published.sc.raced =>
           ccr.scCh[1] = published.sc.last

\* With no watcher running, three calls one after another have left the
\* latest address list and the latest service config in the channels: one of
\* them has overwritten an earlier value.
C14_Witness ==
    /\ watcher.pc = "off"
    /\ published.left = 0
    /\ ~published.addr.raced /\ ~published.sc.raced
    /\ \A p \in Publishers : publishers[p].pc = "idle"
    /\ ccr.addrCh = <<published.addr.last>>
    /\ ccr.scCh = <<published.sc.last>>

\* C15: NewAddress and NewServiceConfig never wait: a goroutine that has
\* reached the send of either finds room in the channel, whatever the other
\* publishing goroutines, the watcher and close() have done.
C15_PublishNeverBlocks ==
    \A p \in Publishers :
        /\ publishers[p].pc = "addr" => ccr.addrCh = <<>>
        /\ publishers[p].pc = "sc" => ccr.scCh = <<>>

\* C16: the watcher dequeues one update per iteration of its loop and makes
\* one call of a handler for it, and is inside that call until it returns:
\* at most one call made by the watcher is running.
C16_SequentialDelivery ==
    /\ handler.running <= 1
    /\ watcher.deq <= 1
    /\ watcher.made <= watcher.deq
    /\ watcher.pc \in {"addrCheck", "scCheck", "addrCall", "scCall"} =>
           watcher.deq = 1 /\ watcher.made = 0
    /\ handler.running = 1 <=> watcher.pc = "handler"
    /\ watcher.pc = "handler" => watcher.deq = 1 /\ watcher.made = 1

\* A call of handleServiceConfig is running while the next address list
\* waits in addrCh.
C16_Witness ==
    /\ handler.running = 1
    /\ handler.fn = "handleServiceConfig"
    /\ watcher.pc = "handler"
    /\ ccr.addrCh # <<>>

\* The watcher starts a call of a handler in this step.
CallStarts ==
    /\ watcher.pc \in {"addrCall", "scCall"}
    /\ watcher'.made = watcher.made + 1

\* C17: once close() has closed done, the watcher starts no call of
\* cc.handleResolvedAddrs or cc.handleServiceConfig.
C17_DoneWinsOverUpdates == [][ccr.done => ~CallStarts]_vars

\* C18: the call of cc.handleResolvedAddrs for the empty address list of a
\* failed resolution carries the resolver's error.
C18_ResolverErrorForwarded ==
    handler.fn = "handleResolvedAddrs" /\ handler.arg = <<>> =>
        handler.err # "nil"


\* What the log holds for channel ch: the values published, and the values
\* delivered to the ClientConn.
ValuesOf(what, ch) ==
    LET OfCh(e) == e.ch = ch
        es == SelectSeq(published.log[1][what], OfCh)
    IN  [k \in 1..Len(es) |-> es[k].v]

\* s is what is left of t when some of its elements are taken away.
RECURSIVE Subsequence(_, _)
Subsequence(s, t) ==
    IF s = <<>> THEN TRUE
    ELSE IF t = <<>> THEN FALSE
    ELSE IF Head(s) = Head(t) THEN Subsequence(Tail(s), Tail(t))
    ELSE Subsequence(s, Tail(t))

\* The latest value published on channel ch, if there is one, is the latest
\* one delivered.
LastDelivered(ch) ==
    LET p == ValuesOf("published", ch)
        d == ValuesOf("delivered", ch)
    IN  p # <<>> => d # <<>> /\ d[Len(d)] = p[Len(p)]

\* C38: with one goroutine publishing and a watcher that is started and not
\* closed, the address lists passed to cc.handleResolvedAddrs are a
\* subsequence, in the order of publication, of the lists published, and the
\* last list published is passed in the end; the same holds for the service
\* configs and cc.handleServiceConfig.
C38_LastUpdateDelivered ==
    /\ [](/\ Subsequence(ValuesOf("delivered", "addr"),
                          ValuesOf("published", "addr"))
          /\ Subsequence(ValuesOf("delivered", "sc"),
                          ValuesOf("published", "sc")))
    /\ <>[](LastDelivered("addr") /\ LastDelivered("sc"))

\* An address list was published, then a second one, which replaced it in
\* the channel, then a service config; the watcher delivered the service
\* config first and the second address list after it: no order holds between
\* the two kinds, and the first address list was never delivered.
C38_Witness ==
    /\ published.log # <<>>
    /\ published.log[1].published =
           <<[ch |-> "addr", v |-> <<"a1">>], [ch |-> "addr", v |-> <<"a2">>],
             [ch |-> "sc", v |-> "sc1"]>>
    /\ published.log[1].delivered =
           <<[ch |-> "sc", v |-> "sc1"], [ch |-> "addr", v |-> <<"a2">>]>>
    /\ handler.running = 0


\* ---------------------------------------------------------- the callInfo
\* The call options of the model: FailFast(true), FailFast(false), and an
\* option that leaves failFast alone (Header).
CallOptions ==
    {[kind |-> "FailFast", failFast |-> TRUE],
     [kind |-> "FailFast", failFast |-> FALSE],
     [kind |-> "Header", failFast |-> FALSE]}

\* The lists of at most MaxOptions call options.
OptionLists ==
    UNION {[1..n -> CallOptions] : n \in 0..MaxOptions}

\* MethodConfig.WaitForReady, a *bool: nil, or a pointer to a value.
WaitForReadys == {<<>>, <<TRUE>>, <<FALSE>>}

\* (mutant) the per-call options before the defaults of the ClientConn
combineReversed(o1, o2) == o2 \o o1

\* combine(o1, o2): o1 followed by o2, in a new slice unless one is empty.
combine(o1, o2) ==
    IF Len(o1) = 0 THEN o2
    ELSE IF Len(o2) = 0 THEN o1
    ELSE [k \in 1..(Len(o1) + Len(o2)) |->
             IF k <= Len(o1) THEN o1[k] ELSE o2[k - Len(o1)]]

\* o.before(c) of a call option.
before(o, callInfo) ==
    IF o.kind = "FailFast"
    THEN [callInfo EXCEPT !.failFast = o.failFast]
    ELSE callInfo

\* ClientConn.Invoke / ClientConn.NewStream:
\* opts = combine(cc.dopts.callOptions, opts)
CombineOptions ==
    /\ ci.pc = "NewStream"
    /\ ci' = [ci EXCEPT !.pc = "newClientStream",
                        !.opts = combine(ci.dopts, ci.percall)]
    /\ UNCHANGED nonCallInfo

\* (mutant) WaitForReady taken for the fail-fast flag itself
mcFailFastSame(waitForReady, default) ==
    IF waitForReady # <<>> THEN waitForReady[1] ELSE default

\* c.failFast after
\* if mc.WaitForReady != nil { c.failFast = !*mc.WaitForReady }
\* where default is the failFast of defaultCallInfo().
mcFailFast(waitForReady, default) ==
    IF waitForReady # <<>> THEN ~waitForReady[1] ELSE default

\* The deadline of a context, a time or none: of the caller's context, and
\* MethodConfig.Timeout, a *time.Duration: nil or a pointer to a duration.
Deadlines == {<<>>} \cup {<<t>> : t \in 0..MaxTime}
Timeouts == {<<>>} \cup {<<d>> : d \in (0 - 1)..MaxTimeout}

\* (mutant) the deadline of the parent is not looked at
WithTimeoutOnly(parent, now, d) == <<now + d>>

\* The deadline of context.WithTimeout(parent, d) called at time now: now + d
\* unless the parent's deadline is earlier.
WithTimeout(parent, now, d) ==
    IF parent # <<>> /\ parent[1] < now + d THEN parent ELSE <<now + d>>

\* mc.Timeout != nil && *mc.Timeout >= 0
usesTimeout(timeout) == timeout # <<>> /\ timeout[1] >= 0

\* The deadline of the stream's context:
\* if mc.Timeout != nil && *mc.Timeout >= 0 {
\*     ctx, cancel = context.WithTimeout(ctx, *mc.Timeout)
\* } else { ctx, cancel = context.WithCancel(ctx) }
streamDeadline(parent, now, timeout) ==
    IF usesTimeout(timeout) THEN WithTimeout(parent, now, timeout[1])
    ELSE parent

\* newClientStream: c := defaultCallInfo(); mc := cc.GetMethodConfig(method);
\* if mc.WaitForReady != nil { c.failFast = !*mc.WaitForReady }
\* and then the context of the stream.
MethodConfigDefaults ==
    /\ ci.pc = "newClientStream"
    /\ ci' = [ci EXCEPT !.pc = "before",
                        !.i = 1,
                        !.c = [failFast |-> mcFailFast(ci.mc, ci.default)],
                        !.ctxDeadline =
                            streamDeadline(ci.deadline, ci.now, ci.timeout)]
    /\ UNCHANGED nonCallInfo

\* newClientStream: for _, o := range opts { o.before(c) }
BeforeOption ==
    /\ ci.pc = "before"
    /\ ci' = IF ci.i > Len(ci.opts)
             THEN [ci EXCEPT !.pc = "done"]
             ELSE [ci EXCEPT !.c = before(ci.opts[ci.i], @), !.i = @ + 1]
    /\ UNCHANGED nonCallInfo

\* A call with any default call options of the ClientConn, any MethodConfig
\* and any per-call options.
CallInfoInit ==
    /\ Start({"Invoke"}) /\ c.failFast /\ picker = "Ready"
    /\ bal = newBalancer
    /\ fn = noFunction /\ reg = newRegistries
    /\ creds = NewTLS(<<>>)
    /\ ci \in [pc : {"NewStream"}, dopts : OptionLists, percall : OptionLists,
               mc : WaitForReadys, default : BOOLEAN, opts : {<<>>},
               i : {0}, c : {[failFast |-> TRUE]},
               deadline : {<<>>}, timeout : {<<>>}, now : {0},
               ctxDeadline : {<<>>}]

CallInfoNext ==
    \/ CombineOptions
    \/ MethodConfigDefaults
    \/ BeforeOption

CallInfoSpec == CallInfoInit /\ [][CallInfoNext]_vars

\* A call started at any time with any deadline of the caller's context and
\* any MethodConfig timeout, with at most one per-call option.
DeadlineInit ==
    /\ Start({"Invoke"}) /\ c.failFast /\ picker = "Ready"
    /\ bal = newBalancer
    /\ fn = noFunction /\ reg = newRegistries
    /\ creds = NewTLS(<<>>)
    /\ ci \in [pc : {"NewStream"}, dopts : {<<>>},
               percall : {o \in OptionLists : Len(o) <= 1},
               mc : {<<>>}, default : {TRUE}, opts : {<<>>},
               i : {0}, c : {[failFast |-> TRUE]},
               deadline : Deadlines, timeout : Timeouts, now : 0..MaxTime,
               ctxDeadline : {<<>>}]

DeadlineSpec == DeadlineInit /\ [][CallInfoNext]_vars


\* A list of options sets failFast.
SetsFailFast(opts) == \E k \in DOMAIN opts : opts[k].kind = "FailFast"

\* The value the last FailFast option of a list gives.
LastFailFast(opts) ==
    LET k == CHOOSE j \in DOMAIN opts :
                 /\ opts[j].kind = "FailFast"
                 /\ \A l \in DOMAIN opts : l > j => opts[l].kind # "FailFast"
    IN  opts[k].failFast

\* C20 as stated: the callInfo is the default call options of the ClientConn,
\* then the MethodConfig, then the per-call options, a later one overriding
\* an earlier one; so the MethodConfig's WaitForReady overrides a FailFast
\* among the default call options.
C20_DialThenMethodConfigThenCall ==
    ci.pc = "done" =>
        ci.c.failFast =
            IF SetsFailFast(ci.percall) THEN LastFailFast(ci.percall)
            ELSE IF ci.mc # <<>> THEN ~ci.mc[1]
            ELSE IF SetsFailFast(ci.dopts) THEN LastFailFast(ci.dopts)
            ELSE ci.default

\* C20, amended: the fail-fast flag is the built-in default, then the
\* MethodConfig's WaitForReady, then the default call options of the
\* ClientConn, then the per-call options, a later one overriding an earlier
\* one; so a FailFast among the default call options overrides the
\* MethodConfig's WaitForReady.
C20_MethodConfigThenDialThenCall ==
    ci.pc = "done" =>
        ci.c.failFast =
            IF SetsFailFast(ci.percall) THEN LastFailFast(ci.percall)
            ELSE IF SetsFailFast(ci.dopts) THEN LastFailFast(ci.dopts)
            ELSE IF ci.mc # <<>> THEN ~ci.mc[1]
            ELSE ci.default

\* A default call option FailFast(true) has overridden WaitForReady = true
\* of the MethodConfig, no per-call option setting fail-fast.
C20_Witness ==
    /\ ci.pc = "done"
    /\ ci.mc = <<TRUE>>
    /\ SetsFailFast(ci.dopts) /\ LastFailFast(ci.dopts)
    /\ ci.percall # <<>> /\ ~SetsFailFast(ci.percall)
    /\ ci.c.failFast


\* C21: a fail-fast value given through a call option overrides the
\* MethodConfig's WaitForReady. When the options newClientStream is called
\* with set fail-fast, the effective fail-fast is what the last of them sets,
\* whatever WaitForReady is (and the per-call options, which come last in
\* that list, decide whenever one of them sets it); when no option sets it
\* and WaitForReady = w is present, it is ~w; when neither is present it is
\* the built-in default.
C21_CallOptionOverridesWaitForReady ==
    ci.pc = "done" =>
        /\ SetsFailFast(ci.percall) =>
               ci.c.failFast = LastFailFast(ci.percall)
        /\ SetsFailFast(ci.opts) => ci.c.failFast = LastFailFast(ci.opts)
        /\ ~SetsFailFast(ci.opts) /\ ci.mc # <<>> => ci.c.failFast = ~ci.mc[1]
        /\ ~SetsFailFast(ci.opts) /\ ci.mc = <<>> =>
               ci.c.failFast = ci.default

\* A per-call FailFast(true) has overridden WaitForReady = true, which alone
\* would have made the call wait for ready.
C21_Witness ==
    /\ ci.pc = "done"
    /\ ci.mc = <<TRUE>>
    /\ ci.dopts = <<>>
    /\ SetsFailFast(ci.percall) /\ LastFailFast(ci.percall)
    /\ ci.c.failFast


\* The earlier of two times.
Earlier(t1, t2) == IF t1 < t2 THEN t1 ELSE t2

BalancerCallbacks ==
    {"HandleSubConnStateChange", "HandleResolvedAddrs", "Close"}

\* (mutant) the goroutine that has the event calls the balancer itself
calledDirectly == FALSE

\* The events for the balancer are handed to one goroutine, which makes the
\* calls.
viaWorker == TRUE

\* gRPC has an event for the balancer: the state of a SubConn has changed,
\* the resolver has given addresses, or the ClientConn is closing (the last
\* event there is).
BalancerEvent(cb) ==
    /\ bal.left > 0
    /\ ~bal.closing
    /\ bal' = IF viaWorker
              THEN [bal EXCEPT !.queue = Append(@, cb), !.left = @ - 1,
                               !.closing = cb = "Close"]
              ELSE [bal EXCEPT !.running = @ + 1, !.callback = cb,
                               !.left = @ - 1, !.closing = cb = "Close"]
    /\ UNCHANGED nonBalancer

\* The goroutine of the balancer takes the next event and calls the
\* balancer's callback for it.
BalancerCall ==
    /\ bal.worker = "idle"
    /\ bal.queue # <<>>
    /\ bal' = [bal EXCEPT !.queue = Tail(@), !.worker = "called",
                          !.running = @ + 1, !.callback = Head(bal.queue)]
    /\ UNCHANGED nonBalancer

\* The callback returns; after Close the goroutine ends.
BalancerReturn ==
    /\ bal.worker = "called"
    /\ bal' = [bal EXCEPT !.worker = IF bal.callback = "Close" THEN "ended"
                                    ELSE "idle",
                          !.running = @ - 1]
    /\ UNCHANGED nonBalancer

\* An RPC calls Pick of the current picker.
PickBegin ==
    /\ bal.picking < MaxPicking
    /\ bal' = [bal EXCEPT !.picking = @ + 1]
    /\ UNCHANGED nonBalancer

\* A Pick returns.
PickEnd ==
    /\ bal.picking > 0
    /\ bal' = [bal EXCEPT !.picking = @ - 1]
    /\ UNCHANGED nonBalancer

\* A ClientConn with its balancer, and no RPC's other state.
BalancerInit ==
    /\ Start({"Invoke"}) /\ c.failFast /\ picker = "Ready"
    /\ ci = noCallInfo
    /\ bal = newBalancer
    /\ fn = noFunction /\ reg = newRegistries
    /\ creds = NewTLS(<<>>)

BalancerNext ==
    \/ \E cb \in BalancerCallbacks : BalancerEvent(cb)
    \/ BalancerCall
    \/ BalancerReturn
    \/ PickBegin
    \/ PickEnd

BalancerSpec == BalancerInit /\ [][BalancerNext]_vars

\* C19: at most one of HandleSubConnStateChange, HandleResolvedAddrs and
\* Close of the balancer is running at any time, whatever the order of the
\* SubConn state changes, resolver updates and the shutdown, and whether or
\* not Picks are running.
C19_BalancerCallbacksSerial ==
    /\ bal.running <= 1
    /\ bal.running = 1 <=> bal.worker = "called"
    /\ bal.running = 1 => bal.callback \in BalancerCallbacks

\* Two Picks are running while HandleResolvedAddrs runs and a SubConn state
\* change waits for it to return.
C19_Witness ==
    /\ bal.running = 1
    /\ bal.callback = "HandleResolvedAddrs"
    /\ bal.picking = 2
    /\ bal.queue # <<>>
    /\ Head(bal.queue) = "HandleSubConnStateChange"


\* ------------------------------------------------------------- getMaxSize
\* A *int: nil, or a pointer to a size.
Sizes == {<<>>} \cup {<<n>> : n \in (0 - 1)..MaxMsgSize}

\* (mutant) the second of the two, whichever is smaller
minSecond(a, b) == b

\* func min(a, b *int) *int
min(a, b) == IF a[1] < b[1] THEN a ELSE b

\* func getMaxSize(mcMax, doptMax *int, defaultVal int) *int
getMaxSize(mcMax, doptMax, defaultVal) ==
    IF mcMax = <<>> /\ doptMax = <<>> THEN <<defaultVal>>
    ELSE IF mcMax # <<>> /\ doptMax # <<>> THEN min(mcMax, doptMax)
    ELSE IF mcMax # <<>> THEN mcMax
    ELSE doptMax

\* newClientStream: c.maxSendMessageSize = getMaxSize(mc.MaxReqSize,
\* c.maxSendMessageSize, defaultClientMaxSendMessageSize), and the same for
\* the receive size.
GetMaxSize ==
    /\ fn.op = "getMaxSize" /\ ~fn.done
    /\ fn' = [fn EXCEPT !.done = TRUE,
                        !.out = getMaxSize(fn.arg.mcMax, fn.arg.doptMax,
                                           fn.arg.defaultVal)]
    /\ UNCHANGED nonFunction

\* The calls of getMaxSize: every MethodConfig size, every size of the call
\* options, every default.
GetMaxSizeCalls ==
    [op : {"getMaxSize"},
     arg : [mcMax : Sizes, doptMax : Sizes, defaultVal : 0..MaxMsgSize],
     done : {FALSE}, out : {<<>>}]

\* C23: getMaxSize(mcMax, optMax, default) returns min(mcMax, optMax) when
\* both are set, the one that is set when exactly one is set, and default
\* when neither is set.
C23_GetMaxSize ==
    fn.op = "getMaxSize" /\ fn.done =>
        LET mc == fn.arg.mcMax
            opt == fn.arg.doptMax
        IN  /\ mc # <<>> /\ opt # <<>> =>
                /\ fn.out \in {mc, opt}
                /\ fn.out[1] <= mc[1] /\ fn.out[1] <= opt[1]
            /\ mc # <<>> /\ opt = <<>> => fn.out = mc
            /\ mc = <<>> /\ opt # <<>> => fn.out = opt
            /\ mc = <<>> /\ opt = <<>> => fn.out = <<fn.arg.defaultVal>>

\* The MethodConfig size is larger than the size of the call options, which
\* is the result, and differs from the default.
C23_Witness ==
    /\ fn.op = "getMaxSize" /\ fn.done
    /\ fn.arg.mcMax # <<>> /\ fn.arg.doptMax # <<>>
    /\ fn.arg.doptMax[1] < fn.arg.mcMax[1]
    /\ fn.out = fn.arg.doptMax /\ fn.out # <<fn.arg.defaultVal>>


\* ---------------------------------------------------------------- strings
\* A string is the sequence of its characters.
\* strings.HasSuffix(s, suffix)
HasSuffix(s, suffix) ==
    /\ Len(s) >= Len(suffix)
    /\ SubSeq(s, Len(s) - Len(suffix) + 1, Len(s)) = suffix

\* sep occurs in s at position i.
Occurs(s, sep, i) ==
    /\ i + Len(sep) - 1 <= Len(s)
    /\ SubSeq(s, i, i + Len(sep) - 1) = sep

\* (mutant) the position of the last occurrence of sep in s, 0 if there is
\* none
LastIndex(s, sep) ==
    IF \E i \in 1..Len(s) : Occurs(s, sep, i)
    THEN CHOOSE i \in 1..Len(s) :
             /\ Occurs(s, sep, i)
             /\ \A j \in (i + 1)..Len(s) : ~Occurs(s, sep, j)
    ELSE 0

\* The position of the first occurrence of sep in s, 0 if there is none:
\* where strings.SplitN cuts first.
Index(s, sep) ==
    IF \E i \in 1..Len(s) : Occurs(s, sep, i)
    THEN CHOOSE i \in 1..Len(s) :
             /\ Occurs(s, sep, i)
             /\ \A j \in 1..(i - 1) : ~Occurs(s, sep, j)
    ELSE 0

\* strings.SplitN(s, sep, n) for n > 0 and a non-empty sep: at most n
\* pieces, the last of them the unsplit remainder.
RECURSIVE SplitN(_, _, _)
SplitN(s, sep, n) ==
    LET i == Index(s, sep) IN
    IF n <= 1 \/ i = 0 THEN <<s>>
    ELSE <<SubSeq(s, 1, i - 1)>>
             \o SplitN(SubSeq(s, i + Len(sep), Len(s)), sep, n - 1)

\* The decimal digits, and the value of one.
DigitChars == <<"0", "1", "2", "3", "4", "5", "6", "7", "8", "9">>
IsDigit(ch) == \E d \in 1..10 : DigitChars[d] = ch
DigitOf(ch) == (CHOOSE d \in 1..10 : DigitChars[d] = ch) - 1

\* The largest int32.
MaxInt32 == 2147483647

\* The number a string of digits denotes when it is at most MaxInt32; -1
\* when it is MaxInt32 + 1, the magnitude of the smallest int32; -2 when it
\* is larger.
RECURSIVE magnitude(_)
magnitude(ds) ==
    IF ds = <<>> THEN 0
    ELSE LET hi == magnitude(SubSeq(ds, 1, Len(ds) - 1))
             d == DigitOf(ds[Len(ds)])
         IN  IF hi < 0 THEN 0 - 2
             ELSE IF hi < 214748364 \/ (hi = 214748364 /\ d <= 7)
                  THEN hi * 10 + d
             ELSE IF hi = 214748364 /\ d = 8 THEN 0 - 1
             ELSE 0 - 2

\* strconv.ParseInt(s, 10, bitSize): an optional sign and then one digit or
\* more; a range error if the number does not fit in bitSize bits.
\* parseDuration calls it with bitSize 64 on at most nine characters only,
\* which always fit.
ParseInt(s, bitSize) ==
    LET signed == Len(s) > 0 /\ s[1] \in {"+", "-"}
        neg == signed /\ s[1] = "-"
        ds == IF signed THEN Tail(s) ELSE s
        mag == magnitude(ds)
    IN  IF ds = <<>> \/ \E k \in 1..Len(ds) : ~IsDigit(ds[k])
        THEN [err |-> "ErrSyntax", val |-> 0]
        ELSE IF mag = 0 - 2 \/ (mag = 0 - 1 /\ ~neg)
        THEN [err |-> "ErrRange", val |-> 0]
        ELSE [err |-> "nil",
              val |-> IF ~neg THEN mag
                      ELSE IF mag = 0 - 1 THEN 0 - MaxInt32 - 1
                      ELSE 0 - mag]


\* ---------------------------------------------------------- parseDuration
\* A time.Duration d is written [sec |-> i, nano |-> f] for
\* d = i * time.Second + f nanoseconds, as parseDuration adds it up: i is an
\* int32 and |f| < 10^9, so that the int64 sum never overflows, and two
\* durations with nano in 0..10^9-1 are equal iff their records are.

\* (mutant) the fraction is not padded
padNone(f, k) == f

\* for i := 9; i > len(ss[1]); i-- { f *= 10 }
RECURSIVE pad(_, _)
pad(f, k) == IF k >= 9 THEN f ELSE pad(f * 10, k + 1)

\* fmt.Errorf("malformed duration %q", *s)
malformed == [d |-> <<>>, err |-> "malformed duration"]

\* func parseDuration(s *string) (*time.Duration, error)
parseDuration(s) ==
    IF s = <<>> THEN [d |-> <<>>, err |-> "nil"]
    ELSE IF ~HasSuffix(s[1], <<"s">>) THEN malformed
    ELSE LET ss == SplitN(SubSeq(s[1], 1, Len(s[1]) - 1), <<".">>, 3)
             hasWhole == Len(ss[1]) > 0
             i == ParseInt(ss[1], 32)
             hasFrac == Len(ss) = 2 /\ Len(ss[2]) > 0
             f == ParseInt(ss[2], 64)
         IN  IF Len(ss) > 2 THEN malformed
             ELSE IF hasWhole /\ i.err # "nil" THEN malformed
             ELSE IF hasFrac /\ Len(ss[2]) > 9 THEN malformed
             ELSE IF hasFrac /\ f.err # "nil" THEN malformed
             ELSE IF ~(hasWhole \/ hasFrac) THEN malformed
             ELSE [d |-> <<[sec |-> IF hasWhole THEN i.val ELSE 0,
                            nano |-> IF hasFrac THEN pad(f.val, Len(ss[2]))
                                     ELSE 0]>>,
                   err |-> "nil"]

\* parseServiceConfig: d, err := parseDuration(m.Timeout)
ParseDuration ==
    /\ fn.op = "parseDuration" /\ ~fn.done
    /\ fn' = [fn EXCEPT !.done = TRUE, !.out = parseDuration(fn.arg)]
    /\ UNCHANGED nonFunction

\* The characters of the duration strings, and the strings of at most n of
\* them.
DurationChars == {"0", "1", "9", ".", "s", "-"}
Strings(chars, n) == UNION {[1..k -> chars] : k \in 0..n}

\* Longer duration strings: the canonical forms, fractions of nine and of
\* ten digits, two decimal points, and whole parts at the int32 limits.
LongDurations ==
    {<<"0", ".", "5", "0", "0", "s">>,
     <<"1", ".", "0", "0", "0", "0", "0", "0", "0", "0", "1", "s">>,
     <<"1", ".", "0", "0", "0", "0", "0", "0", "0", "0", "0", "1", "s">>,
     <<".", "0", "0", "0", "0", "0", "0", "0", "0", "1", "s">>,
     <<"1", ".", "2", ".", "3", "s">>,
     <<"2", "1", "4", "7", "4", "8", "3", "6", "4", "7", "s">>,
     <<"2", "1", "4", "7", "4", "8", "3", "6", "4", "8", "s">>,
     <<"-", "2", "1", "4", "7", "4", "8", "3", "6", "4", "8", "s">>,
     <<"9", "9", "9", "9", "9", "9", "9", "9", "9", "9", "s">>,
     <<"1", ".", "+", "5", "s">>,
     <<"0", ".", "5", "0", "0", "0", "0", "s">>}

\* The calls of parseDuration: a nil pointer, every short string and the
\* longer ones.
ParseDurationCalls ==
    [op : {"parseDuration"},
     arg : {<<>>} \cup {<<s>> : s \in Strings(DurationChars, MaxDurationLen)
                                     \cup LongDurations},
     done : {FALSE}, out : {<<>>}]

\* A string of decimal digits, possibly empty.
IsDigits(s) == \A k \in 1..Len(s) : IsDigit(s[k])

RECURSIVE Pow10(_)
Pow10(n) == IF n = 0 THEN 1 ELSE 10 * Pow10(n - 1)

\* The number a string of decimal digits denotes, 0 for the empty string.
RECURSIVE Decimal(_)
Decimal(ds) ==
    IF ds = <<>> THEN 0
    ELSE DigitOf(ds[1]) * Pow10(Len(ds) - 1) + Decimal(Tail(ds))

\* The duration grammar: digits, optionally one decimal point followed by at
\* most nine digits, at least one digit overall, then a final 's'. Body is
\* the string without its last character, Points the positions of its
\* decimal points, IntPart and FracPart what is before and after the first.
Body(s) == SubSeq(s, 1, Len(s) - 1)
Points(s) == {k \in 1..Len(Body(s)) : Body(s)[k] = "."}
IntPart(s) ==
    IF Points(s) = {} THEN Body(s)
    ELSE SubSeq(Body(s), 1, (CHOOSE k \in Points(s) :
                                \A l \in Points(s) : k <= l) - 1)
FracPart(s) ==
    IF Points(s) = {} THEN <<>>
    ELSE SubSeq(Body(s), (CHOOSE k \in Points(s) :
                             \A l \in Points(s) : k <= l) + 1,
                Len(Body(s)))
Grammar(s) ==
    /\ Len(s) > 0 /\ s[Len(s)] = "s"
    /\ Cardinality(Points(s)) <= 1
    /\ IsDigits(IntPart(s)) /\ IsDigits(FracPart(s))
    /\ Len(FracPart(s)) <= 9
    /\ Len(IntPart(s)) + Len(FracPart(s)) > 0

\* parseDuration has returned for the string s.
Parsed(s) == fn.op = "parseDuration" /\ fn.done /\ fn.arg = <<s>>

\* C24: for every accepted duration string whose integer part I and
\* fractional part F are strings of decimal digits (F of length k <= 9, not
\* both empty), parseDuration returns I * 10^9 + F * 10^(9-k) nanoseconds,
\* an empty part counting as 0; and such a string is accepted when I has at
\* most nine digits, as "1s", "0.500s" and "1.000000001s".
C24_DurationValue ==
    fn.op = "parseDuration" /\ fn.done /\ fn.arg # <<>> =>
        LET s == fn.arg[1] IN
        Grammar(s) =>
            /\ Len(IntPart(s)) <= 9 => fn.out.err = "nil"
            /\ fn.out.err = "nil" =>
                fn.out.d = <<[sec |-> Decimal(IntPart(s)),
                              nano |-> Decimal(FracPart(s))
                                           * Pow10(9 - Len(FracPart(s)))]>>

\* "0.500s" has been parsed into 500000000 ns: a three-digit fraction was
\* padded to nine digits.
C24_Witness ==
    /\ Parsed(<<"0", ".", "5", "0", "0", "s">>)
    /\ fn.out = [d |-> <<[sec |-> 0, nano |-> 500000000]>>, err |-> "nil"]

\* C25: parseDuration returns a parse error for every string that deviates
\* from the duration grammar (digits, optionally one decimal point followed
\* by at most nine digits, at least one digit overall, then a final 's').
C25_DeviationIsParseError ==
    fn.op = "parseDuration" /\ fn.done /\ fn.arg # <<>> =>
        (~Grammar(fn.arg[1]) => fn.out.err # "nil")


\* ------------------------------------------------------------ parseTarget
\* func split2(s, sep string) (string, string, bool)
split2(s, sep) ==
    LET spl == SplitN(s, sep, 2) IN
    IF Len(spl) < 2 THEN [a |-> <<>>, b |-> <<>>, ok |-> FALSE]
    ELSE [a |-> spl[1], b |-> spl[2], ok |-> TRUE]

\* resolver.Target{Endpoint: target}
endpointOnly(target) ==
    [Scheme |-> <<>>, Authority |-> <<>>, Endpoint |-> target]

\* func parseTarget(target string) (ret resolver.Target)
parseTarget(target) ==
    LET scheme == split2(target, <<":", "/", "/">>)
        authority == split2(scheme.b, <<"/">>)
    IN  IF ~scheme.ok THEN endpointOnly(target)
        ELSE IF ~authority.ok THEN endpointOnly(target)
        ELSE [Scheme |-> scheme.a, Authority |-> authority.a,
              Endpoint |-> authority.b]

\* A dial target is parsed.
ParseTarget ==
    /\ fn.op = "parseTarget" /\ ~fn.done
    /\ fn' = [fn EXCEPT !.done = TRUE, !.out = parseTarget(fn.arg)]
    /\ UNCHANGED nonFunction

\* The characters of the dial targets, and the calls of parseTarget: every
\* target of at most MaxTargetLen characters.
TargetChars == {"a", ":", "/"}
ParseTargetCalls ==
    [op : {"parseTarget"}, arg : Strings(TargetChars, MaxTargetLen),
     done : {FALSE}, out : {<<>>}]

\* "://" is at position i of the target t, and nowhere before; and "/" is at
\* position j of the target, after that "://", and nowhere in between.
SchemeEndsAt(t, i) ==
    /\ i + 2 <= Len(t)
    /\ t[i] = ":" /\ t[i + 1] = "/" /\ t[i + 2] = "/"
    /\ \A h \in 1..(i - 1) :
           ~(t[h] = ":" /\ t[h + 1] = "/" /\ t[h + 2] = "/")
AuthorityEndsAt(t, i, j) ==
    /\ j \in (i + 3)..Len(t) /\ t[j] = "/"
    /\ \A h \in (i + 3)..(j - 1) : t[h] # "/"

\* C26: if the target contains "://" and the text after the first "://"
\* contains a "/", parseTarget returns the text before the first "://" as
\* the scheme, the text between it and the next "/" as the authority and
\* everything after that "/" as the endpoint; if it contains no "://", or no
\* "/" after it, scheme and authority are empty and the endpoint is the
\* whole target.
C26_ParseTarget ==
    fn.op = "parseTarget" /\ fn.done =>
        LET t == fn.arg IN
        /\ \A i \in 1..Len(t), j \in 1..Len(t) :
               SchemeEndsAt(t, i) /\ AuthorityEndsAt(t, i, j) =>
                   fn.out = [Scheme |-> SubSeq(t, 1, i - 1),
                             Authority |-> SubSeq(t, i + 3, j - 1),
                             Endpoint |-> SubSeq(t, j + 1, Len(t))]
        /\ (~\E i \in 1..Len(t), j \in 1..Len(t) :
                SchemeEndsAt(t, i) /\ AuthorityEndsAt(t, i, j)) =>
               fn.out = [Scheme |-> <<>>, Authority |-> <<>>, Endpoint |-> t]

\* "a://a/a" has been parsed into its three parts, and so has a target with
\* a second "/" in its endpoint.
C26_Witness ==
    /\ fn.op = "parseTarget" /\ fn.done
    /\ fn.arg \in {<<"a", ":", "/", "/", "a", "/", "a">>, <<"a", ":", "/", "/", "/", "a", "/">>}
    /\ fn.out.Endpoint \in {<<"a">>, <<"a", "/">>}
    /\ fn.out.Scheme = <<"a">>


\* ---------------------------------------------------------- the registries
\* registry[key], or nil: <<>> for nil, <<v>> for the value v.
lookup(registry, key) ==
    IF key \in DOMAIN registry THEN <<registry[key]>> ELSE <<>>

\* (mutant) a key that is taken keeps its value
storeFirst(registry, key, value) == registry @@ (key :> value)

\* registry[key] = value
store(registry, key, value) == (key :> value) @@ registry

\* The compressors of the model: two for each of two names that differ in
\* the case of a letter only.
CompressorNames == {"gzip", "Gzip"}
Compressors == [id : {1, 2}, name : CompressorNames]

\* func GetCompressor(name string) Compressor
GetCompressor(name) == lookup(reg.registeredCompressor, name)

\* Registrations are made at initialization time only, before any call.
initializing ==
    /\ reg.call.pc = "off"
    /\ Len(reg.compressors) + Len(reg.codecs) < MaxRegistrations

\* func RegisterCompressor(c Compressor)
RegisterCompressor(comp) ==
    /\ initializing
    /\ reg' = [reg EXCEPT
                   !.registeredCompressor = store(@, comp.name, comp),
                   !.compressors = Append(@, comp)]
    /\ UNCHANGED nonRegistry

\* The codecs of the model: nil, and two for each of some names, among them
\* the empty name and names that differ in the case of a letter only.
CodecNames == {<<>>, <<"p">>, <<"P">>, <<"j">>}
Codecs == {<<>>} \cup {<<cd>> : cd \in [id : {1, 2}, name : CodecNames]}

\* (mutant) the name as it is
sameCase(s) == s

\* strings.ToLower on the letters of the model.
ToLower(s) ==
    [k \in 1..Len(s) |-> IF s[k] = "P" THEN "p"
                         ELSE IF s[k] = "J" THEN "j"
                         ELSE s[k]]

\* func GetCodec(contentSubtype string) Codec
GetCodec(contentSubtype) == lookup(reg.registeredCodecs, contentSubtype)

\* func RegisterCodec(codec Codec): codec is <<>> for a nil Codec. A panic
\* leaves the map as it is.
RegisterCodec(codec) ==
    /\ initializing
    /\ LET panics == codec = <<>> \/ ToLower(codec[1].name) = <<>> IN
       reg' = [reg EXCEPT
                  !.registeredCodecs =
                      IF panics THEN @
                      ELSE store(@, ToLower(codec[1].name), codec[1]),
                  !.codecs = Append(@, codec),
                  !.panicked = panics]
    /\ UNCHANGED nonRegistry

\* encoding.Identity
Identity == "identity"

\* c.compressorType, set by the UseCompressor call option ("" if it is not
\* used), and cc.dopts.cp, set by the WithCompressor dial option (nil if it
\* is not used).
CompressorTypes == {"", Identity, "gzip", "Gzip", "zstd"}
DialCompressors == {<<>>, <<[Type |-> "deflate"]>>}

\* (mutant) no name is looked up in the registry
lookedUpNever(ct) == FALSE

\* if ct != encoding.Identity { comp = encoding.GetCompressor(ct) ... }
lookedUp(ct) == ct # Identity

\* newClientStream chooses the send compression of a call whose
\* c.compressorType is ct on a ClientConn whose dopts.cp is cp, and returns
\* an Internal status if the compressor it needs is not registered.
SelectCompression(ct, cp) ==
    /\ reg.call.pc = "off"
    /\ LET comp == IF ct # "" /\ lookedUp(ct) THEN GetCompressor(ct)
                   ELSE <<>>
           missing == ct # "" /\ lookedUp(ct) /\ comp = <<>>
       IN  reg' = [reg EXCEPT !.call =
                      [pc |-> IF missing THEN "returned" ELSE "attempt",
                       ct |-> ct,
                       cp |-> cp,
                       SendCompress |-> IF ct # "" THEN ct
                                        ELSE IF cp # <<>> THEN cp[1].Type
                                        ELSE "",
                       comp |-> comp,
                       cpUsed |-> IF ct = "" THEN cp ELSE <<>>,
                       err |-> IF missing THEN "Internal" ELSE "nil",
                       cs |-> FALSE]]
    /\ UNCHANGED nonRegistry

\* The rest of newClientStream when it goes well: the attempt loop and
\* cs := &clientStream{...}.
StreamCreated ==
    /\ reg.call.pc = "attempt"
    /\ reg' = [reg EXCEPT !.call.pc = "stream", !.call.cs = TRUE]
    /\ UNCHANGED nonRegistry

\* The registries at program start, and no RPC's other state.
RegistryInit ==
    /\ Start({"Invoke"}) /\ c.failFast /\ picker = "Ready"
    /\ ci = noCallInfo /\ bal = newBalancer /\ fn = noFunction
    /\ reg = newRegistries
    /\ creds = NewTLS(<<>>)

RegistryNext ==
    \/ \E comp \in Compressors : RegisterCompressor(comp)
    \/ \E codec \in Codecs : RegisterCodec(codec)
    \/ \E ct \in CompressorTypes, cp \in DialCompressors :
           SelectCompression(ct, cp)
    \/ StreamCreated

RegistrySpec == RegistryInit /\ [][RegistryNext]_vars

\* The compressor of the most recent call of RegisterCompressor whose Name()
\* is name, nil if there was none.
LatestCompressor(name) ==
    LET ks == {k \in 1..Len(reg.compressors) :
                  reg.compressors[k].name = name}
    IN  IF ks = {} THEN <<>>
        ELSE <<reg.compressors[CHOOSE k \in ks : \A l \in ks : l <= k]>>

\* C27: send compression in newClientStream. A non-empty per-call compressor
\* name wins (the compressor of the ClientConn is not used) and, unless it is
\* "identity", its compressor must be in the registry, otherwise
\* newClientStream returns an Internal status and creates no stream; with an
\* empty per-call name the compressor of the ClientConn, if there is one, is
\* used with its type as the send-compression name; otherwise there is no
\* compression.
C27_SendCompression ==
    reg.call.pc # "off" =>
        LET call == reg.call IN
        /\ call.ct # "" =>
               /\ call.cpUsed = <<>>
               /\ call.SendCompress = call.ct
               /\ call.ct = "identity" => call.comp = <<>> /\ call.err = "nil"
               /\ call.ct # "identity" =>
                      /\ call.comp = LatestCompressor(call.ct)
                      /\ call.err =
                             IF LatestCompressor(call.ct) = <<>>
                             THEN "Internal" ELSE "nil"
        /\ call.ct = "" /\ call.cp # <<>> =>
               /\ call.cpUsed = call.cp /\ call.comp = <<>>
               /\ call.SendCompress = call.cp[1].Type
               /\ call.err = "nil"
        /\ call.ct = "" /\ call.cp = <<>> =>
               /\ call.cpUsed = <<>> /\ call.comp = <<>>
               /\ call.SendCompress = ""
               /\ call.err = "nil"
        /\ call.err # "nil" => call.pc = "returned" /\ ~call.cs
        /\ call.err = "nil" => call.pc \in {"attempt", "stream"}

\* A call asked for "Gzip" while only "gzip" was registered and the
\* ClientConn had a compressor: it got an Internal status and no stream.
C27_Witness ==
    /\ reg.call.pc = "returned" /\ reg.call.err = "Internal"
    /\ reg.call.ct = "Gzip" /\ reg.call.cp # <<>>
    /\ GetCompressor("gzip") # <<>>
    /\ reg.call.cpUsed = <<>> /\ ~reg.call.cs

\* C28: the compressor registry is last-writer-wins. After any sequence of
\* RegisterCompressor calls, GetCompressor(name) returns the compressor of
\* the most recent registration whose Name() equals name exactly, and nil if
\* there was none.
C28_LastWriterWins ==
    \A name \in CompressorNames \cup {"zstd", "GZIP", ""} :
        GetCompressor(name) = LatestCompressor(name)

\* A name was registered twice, with another name in between: the second
\* compressor is found under it and the other name keeps its own.
C28_Witness ==
    /\ Len(reg.compressors) = 3
    /\ reg.compressors[1].name = reg.compressors[3].name
    /\ reg.compressors[1].id # reg.compressors[3].id
    /\ reg.compressors[2].name # reg.compressors[1].name
    /\ GetCompressor(reg.compressors[1].name) = <<reg.compressors[3]>>
    /\ GetCompressor(reg.compressors[2].name) = <<reg.compressors[2]>>

\* The lower-case names, and a name and a lower-case name that differ in the
\* case of their letters at most.
LowerCase == {<<>>, <<"p">>, <<"j">>}
EqualFold(name, lower) ==
    /\ Len(name) = Len(lower)
    /\ \A k \in 1..Len(name) :
           <<name[k], lower[k]>> \in
               {<<"p", "p">>, <<"P", "p">>, <<"j", "j">>, <<"J", "j">>}

\* C29: RegisterCodec panics for a nil codec and for a codec whose Name() is
\* the empty string, leaving the codec registry unchanged; otherwise it
\* stores the codec under the lower-cased name, whatever the case of the
\* letters at registration, and leaves every other name as it was.
C29_RegisterCodec ==
    [][Len(reg'.codecs) = Len(reg.codecs) + 1 =>
          LET codec == reg'.codecs[Len(reg'.codecs)] IN
          IF codec = <<>> \/ codec[1].name = <<>>
          THEN /\ reg'.panicked
               /\ reg'.registeredCodecs = reg.registeredCodecs
          ELSE /\ ~reg'.panicked
               /\ \A lower \in LowerCase :
                      lookup(reg'.registeredCodecs, lower) =
                          IF EqualFold(codec[1].name, lower) THEN codec
                          ELSE lookup(reg.registeredCodecs, lower)
               /\ DOMAIN reg'.registeredCodecs \subseteq LowerCase]_vars

\* A codec named "P" was registered and then one named "p", which is the one
\* GetCodec("p") returns; a RegisterCodec that panicked came last and has
\* left it there.
C29_Witness ==
    /\ Len(reg.codecs) = 3
    /\ reg.codecs[1] # <<>> /\ reg.codecs[2] # <<>>
    /\ reg.codecs[1][1].name = <<"P">> /\ reg.codecs[2][1].name = <<"p">>
    /\ reg.codecs[1][1].id # reg.codecs[2][1].id
    /\ reg.panicked
    /\ GetCodec(<<"p">>) = reg.codecs[2]
    /\ GetCodec(<<"P">>) = <<>>


\* ------------------------------------------- claims on the send direction
\* C31: every Write of SendMsg has Last set exactly when the RPC is not
\* client-streaming; on a client-streaming RPC no Write of SendMsg has Last
\* set, the only Write with Last is the one of CloseSend.
C31_LastIffNotClientStreaming ==
    \A k \in DOMAIN calls : \A i \in DOMAIN calls[k].writes :
        LET w == calls[k].writes[i] IN
            /\ w.by = "SendMsg" => (w.Last <=> ~desc.ClientStreams)
            /\ desc.ClientStreams /\ w.Last => w.by = "CloseSend"

\* A client-streaming RPC has sent a message, without Last, and then closed
\* its send direction, with Last.
C31_Witness ==
    /\ HasStream /\ desc.ClientStreams
    /\ Len(Call.writes) = 2
    /\ Call.writes[1].by = "SendMsg" /\ ~Call.writes[1].Last
    /\ Call.writes[2].by = "CloseSend" /\ Call.writes[2].Last

\* C37: over the calls of CloseSend on one stream, CloseSend issues at most
\* one Write, an empty one with Last set, and none after a SendMsg of an RPC
\* that is not client-streaming has written its message with Last.
C37_CloseSendIdempotent ==
    \A k \in DOMAIN calls :
        LET ws == calls[k].writes IN
            /\ Cardinality({i \in DOMAIN ws : ws[i].by = "CloseSend"}) <= 1
            /\ \A i \in DOMAIN ws : ws[i].by = "CloseSend" => ws[i].Last
            /\ \A i, j \in DOMAIN ws :
                   i < j /\ ws[i].Last => ws[j].by # "CloseSend"

\* An RPC that is not client-streaming has sent its message, and the
\* CloseSend that followed has returned without a Write.
C37_Witness ==
    /\ HasStream /\ ~desc.ClientStreams
    /\ pc["main"] = "stream" /\ lv["main"].op = "CloseSend"
    /\ Call.sentLast
    /\ Len(Call.writes) = 1 /\ Call.writes[1].by = "SendMsg"


\* C32: the body of finish(err) reports nil for io.EOF and err otherwise to
\* CloseStream, to the done callback and to the stats End event, and the
\* done callback gets BytesSent = true and the BytesReceived flag of the
\* transport stream, whichever goroutine runs it.
C32_FinishNormalised ==
    [][\A t \in Threads :
          pc[t] = "finishBody" /\ pc'[t] # "finishBody" =>
              LET e == IF lv[t].err = "EOF" THEN "nil" ELSE lv[t].err
                  d == Call.done
              IN  /\ calls'[cur].closeStreams = Call.closeStreams + 1
                  /\ calls'[cur].closeErr = e
                  /\ calls'[cur].ends = Call.ends + 1
                  /\ calls'[cur].endErr = e
                  /\ d # 0 =>
                        /\ dones'[d].fired = dones[d].fired + 1
                        /\ dones'[d].Err = e
                        /\ dones'[d].BytesSent
                        /\ dones'[d].BytesReceived = Call.bytesReceived]_vars

\* A server-streaming RPC received a message and then the end of the stream:
\* RecvMsg returned io.EOF, and its finish reported nil with both flags set.
C32_Witness ==
    /\ HasStream /\ desc.ServerStreams
    /\ pc["watch"] = "select" /\ pc["main"] = "stream"
    /\ pc["recv"] = "stream" /\ lv["recv"].op = "RecvMsg"
    /\ lv["recv"].err = "EOF"
    /\ Call.finished /\ Call.closeStreams = 1
    /\ Call.closeErr = "nil" /\ Call.ends = 1 /\ Call.endErr = "nil"
    /\ Call.done # 0
    /\ dones[Call.done].fired = 1 /\ dones[Call.done].from = "finish"
    /\ dones[Call.done].Err = "nil"
    /\ dones[Call.done].BytesSent /\ dones[Call.done].BytesReceived


\* newClientStream has returned an error to NewStream.
NcsFailed == pc["main"] = "done" /\ resultFrom = "newClientStream"

\* C35: when newClientStream returns an error, the derived context has been
\* cancelled, no clientStream is returned, the goroutine of the stream is
\* not started, and if the stats Begin event was emitted there is exactly one
\* stats End event, which carries the error returned.
C35_ErrorReturnCleansUp ==
    NcsFailed =>
        /\ result \notin {"nil", "pending"}
        /\ Call.cancels = 1 /\ Call.ctx # "nil"
        /\ ~Call.cs
        /\ pc["watch"] = "off" /\ pc["recv"] = "off"
        /\ Call.begins > 0 => Call.ends = 1 /\ Call.endErr = result

\* NewStream of the transport failed for a fail-fast RPC after the stats
\* Begin event: the error is returned, and the End event carries it.
C35_Witness ==
    /\ NcsFailed /\ c.failFast
    /\ Call.newStreams = 1 /\ result = "Unavailable"
    /\ Call.begins = 1 /\ Call.ends = 1 /\ Call.endErr = "Unavailable"
    /\ Call.cancels = 1

\* C36: once a stream is finished, by whatever path, its goroutine
\* terminates: the cancel of finish makes the case <-ctx.Done() of its select
\* ready, and the finish it then calls finds cs.finished set and changes
\* nothing.
C36_GoroutineTerminates ==
    /\ (HasStream /\ Call.finished) ~> (pc["watch"] = "exit")
    /\ [][pc["watch"] = "finish" /\ pc'["watch"] = "exit" =>
             calls' = calls /\ dones' = dones]_vars

\* RecvMsg finished the stream at its end; the goroutine woke up, called
\* finish for the cancelled context, and has exited with nothing changed.
C36_Witness ==
    /\ HasStream /\ Call.finished
    /\ pc["watch"] = "exit" /\ lv["watch"].op = "watch"
    /\ lv["watch"].err = "Canceled"
    /\ ~ccCtxDone
    /\ Call.closeErr = "nil" /\ Call.closeStreams = 1 /\ Call.cancels = 1
    /\ lv["recv"].err = "EOF"


\* ----------------------------------------------------- parseServiceConfig
\* The most names in a name array, and the most entries in methodConfig.
MaxNames == 2
MaxEntries == 2

\* An int64 as its two 32-bit words: the number is hi * 2^32 + the low word
\* read as unsigned; lo is the low word read as a signed int32.
MinInt32 == (0 - MaxInt32) - 1
int64(hi, lo) == [hi |-> hi, lo |-> lo]

\* x < y for two 32-bit words read as unsigned.
ult(x, y) == IF (x < 0) = (y < 0) THEN x < y ELSE y < 0

\* a > b for two int64
gt64(a, b) == a.hi > b.hi \/ (a.hi = b.hi /\ ult(b.lo, a.lo))

\* The size of int on the platform, in bits.
IntSizes == {32, 64}

\* const maxInt = int(^uint(0) >> 1), as int64(maxInt)
maxInt(intSize) ==
    IF intSize = 64 THEN int64(MaxInt32, 0 - 1) ELSE int64(0, MaxInt32)

\* int(v) of an int64 v: v itself where int has 64 bits, the low word with
\* its sign where int has 32.
int(v, intSize) ==
    IF intSize = 64 THEN v ELSE int64(IF v.lo < 0 THEN 0 - 1 ELSE 0, v.lo)

\* func newInt(b int) *int
newInt(b) == <<b>>

\* if *m.MaxRequestMessageBytes > int64(maxInt) { newInt(maxInt) }
\* else { newInt(int(*m.MaxRequestMessageBytes)) }, and nil for nil
maxSize(bytes, intSize) ==
    IF bytes = <<>> THEN <<>>
    ELSE IF gt64(bytes[1], maxInt(intSize)) THEN newInt(maxInt(intSize))
    ELSE newInt(int(bytes[1], intSize))

\* (mutant) the method is left out of the path
generatePathServiceOnly(j) ==
    IF j.Service = <<>> THEN [path |-> <<>>, valid |-> FALSE]
    ELSE [path |-> <<"/">> \o j.Service[1] \o <<"/">>, valid |-> TRUE]

\* func (j jsonName) generatePath() (string, bool)
generatePath(j) ==
    IF j.Service = <<>> THEN [path |-> <<>>, valid |-> FALSE]
    ELSE [path |-> <<"/">> \o j.Service[1] \o <<"/">>
                     \o (IF j.Method # <<>> THEN j.Method[1] ELSE <<>>),
          valid |-> TRUE]

\* make(map[string]MethodConfig), and methods[path] = mc
noMethods == [p \in {} |-> <<>>]
put(methods, path, mc) ==
    [p \in DOMAIN methods \cup {path} |->
        IF p = path THEN mc ELSE methods[p]]

\* for _, n := range *m.Name { if path, valid := n.generatePath(); valid {
\* sc.Methods[path] = mc } }, from the k-th name on
RECURSIVE putNames(_, _, _, _)
putNames(methods, names, k, mc) ==
    IF k > Len(names) THEN methods
    ELSE LET g == generatePath(names[k]) IN
         putNames(IF g.valid THEN put(methods, g.path, mc) ELSE methods,
                  names, k + 1, mc)

\* ServiceConfig{}: a nil map holds no method, as an empty one
noServiceConfig == [LB |-> <<>>, Methods |-> noMethods]

\* return ServiceConfig{}, err
failed(sc, err) == [sc |-> noServiceConfig, err |-> err]

\* for _, m := range *rsc.MethodConfig { ... }, from the k-th entry on
RECURSIVE rangeMethodConfig(_, _, _, _)
rangeMethodConfig(sc, ms, k, intSize) ==
    IF k > Len(ms) THEN [sc |-> sc, err |-> "nil"]
    ELSE LET m == ms[k]
             t == parseDuration(m.Timeout)
             mc == [WaitForReady |-> m.WaitForReady,
                    Timeout |-> t.d,
                    MaxReqSize |-> maxSize(m.MaxRequestMessageBytes, intSize),
                    MaxRespSize |-> maxSize(m.MaxResponseMessageBytes, intSize)]
         IN  IF m.Name = <<>> THEN rangeMethodConfig(sc, ms, k + 1, intSize)
             ELSE IF t.err # "nil" THEN failed(sc, t.err)
             ELSE rangeMethodConfig(
                      [sc EXCEPT !.Methods = putNames(@, m.Name[1], 1, mc)],
                      ms, k + 1, intSize)

\* func parseServiceConfig(js string) (ServiceConfig, error), for what
\* json.Unmarshal made of js: its error and the jsonSC it filled, which may
\* be filled in part when there is an error.
parseServiceConfig(js, intSize) ==
    LET sc == [LB |-> js.rsc.LoadBalancingPolicy, Methods |-> noMethods] IN
    IF js.err # "nil" THEN failed(noServiceConfig, js.err)
    ELSE IF js.rsc.MethodConfig = <<>> THEN [sc |-> sc, err |-> "nil"]
    ELSE rangeMethodConfig(sc, js.rsc.MethodConfig[1], 1, intSize)

\* ClientConn.handleServiceConfig: sc, err := parseServiceConfig(js)
ParseServiceConfig ==
    /\ fn.op = "parseServiceConfig" /\ ~fn.done
    /\ fn' = [fn EXCEPT !.done = TRUE,
                        !.out = parseServiceConfig(fn.arg.js, fn.arg.intSize)]
    /\ UNCHANGED nonFunction

\* The lists of at most n elements of S.
Lists(S, n) == UNION {[1..k -> S] : k \in 0..n}

\* The names: with and without a service, with and without a method.
JsonNames == [Service : {<<>>, <<<<"a">>>>}, Method : {<<>>, <<<<"m">>>>}]
NameArrays == {<<>>} \cup {<<ns>> : ns \in Lists(JsonNames, MaxNames)}

\* The timeouts: none, a duration, a string without the final s, a duration
\* with a sign.
JsonTimeouts == {<<>>, <<<<"1", "s">>>>, <<<<"1">>>>, <<<<"-", "1", "s">>>>}

\* The sizes: none, small ones, the ones around the limits of int32 and of
\* int64.
JsonSizes ==
    {<<>>} \cup
    {<<v>> : v \in {int64(0, 0), int64(0, 1), int64(0, MaxInt32),
                    int64(0, MinInt32), int64(0, 0 - 1), int64(1, 0),
                    int64(MaxInt32, 0 - 1), int64(0 - 1, 0 - 1),
                    int64(0 - 1, MinInt32), int64(0 - 1, MaxInt32),
                    int64(MinInt32, 0)}}

\* The entries of methodConfig: every name array, every timeout with and
\* without a name array, every size.
namedA == <<<<[Service |-> <<<<"a">>>>, Method |-> <<>>]>>>>
NameEntries ==
    [Name : NameArrays, WaitForReady : {<<>>}, Timeout : {<<>>},
     MaxRequestMessageBytes : {<<>>}, MaxResponseMessageBytes : {<<>>}]
TimeoutEntries ==
    [Name : {<<>>, namedA}, WaitForReady : {<<TRUE>>}, Timeout : JsonTimeouts,
     MaxRequestMessageBytes : {<<>>}, MaxResponseMessageBytes : {<<>>}]
SizeEntries ==
    [Name : {namedA}, WaitForReady : {<<>>}, Timeout : {<<>>},
     MaxRequestMessageBytes : JsonSizes,
     MaxResponseMessageBytes : {<<>>, <<int64(0, 1)>>, <<int64(1, 0)>>}]

\* What json.Unmarshal can make of a document.
Unmarshalled(errs, lbs, entries, n) ==
    [err : errs,
     rsc : [LoadBalancingPolicy : lbs,
            MethodConfig : {<<>>} \cup {<<ms>> : ms \in Lists(entries, n)}]]

\* The calls of parseServiceConfig.
ParseServiceConfigCalls ==
    [op : {"parseServiceConfig"},
     arg : [js : Unmarshalled({"nil"}, {<<>>}, NameEntries, MaxEntries),
            intSize : {64}]
           \cup [js : Unmarshalled({"nil", "json error"},
                                   {<<>>, <<"round_robin">>},
                                   TimeoutEntries, MaxEntries),
                 intSize : {64}]
           \cup [js : Unmarshalled({"nil"}, {<<>>}, SizeEntries, 1),
                 intSize : IntSizes],
     done : {FALSE}, out : {<<>>}]

\* parseServiceConfig has returned without an error.
ParsedServiceConfig ==
    fn.op = "parseServiceConfig" /\ fn.done /\ fn.out.err = "nil"

\* The entries of the document, and the path the specification gives for a
\* name that has a service.
EntriesOf(js) ==
    IF js.rsc.MethodConfig = <<>> THEN <<>> ELSE js.rsc.MethodConfig[1]
PathOf(n) ==
    IF n.Method = <<>> THEN <<"/">> \o n.Service[1] \o <<"/">>
    ELSE <<"/">> \o n.Service[1] \o <<"/">> \o n.Method[1]

\* C33: in the table parseServiceConfig returns, the keys are the paths of
\* the names that have a service, "/service/" for a name without a method
\* and "/service/method" for one with a method; a name without a service and
\* an entry without a name array add no key.
C33_PathGeneration ==
    ParsedServiceConfig =>
        LET ms == EntriesOf(fn.arg.js) IN
        DOMAIN fn.out.sc.Methods =
            {PathOf(ms[k].Name[1][i]) :
                <<k, i>> \in {ki \in (1..Len(ms)) \X (1..MaxNames + 1) :
                    /\ ms[ki[1]].Name # <<>>
                    /\ ki[2] <= Len(ms[ki[1]].Name[1])
                    /\ ms[ki[1]].Name[1][ki[2]].Service # <<>>}}

\* An entry without a name array, and one with a name without a service and a
\* name with service and method: the only key is "/a/m".
C33_Witness ==
    /\ ParsedServiceConfig
    /\ Len(EntriesOf(fn.arg.js)) = 2
    /\ EntriesOf(fn.arg.js)[1].Name = <<>>
    /\ EntriesOf(fn.arg.js)[2].Name =
           <<<<[Service |-> <<>>, Method |-> <<<<"m">>>>],
               [Service |-> <<<<"a">>>>, Method |-> <<<<"m">>>>]>>>>
    /\ DOMAIN fn.out.sc.Methods = {<<"/", "a", "/", "m">>}


\* What the specification stores for a size field: nothing for an absent
\* field, the largest int of the platform for a value above it, the value
\* otherwise.
Clamped(bytes, intSize) ==
    IF bytes = <<>> THEN <<>>
    ELSE IF gt64(bytes[1], maxInt(intSize)) THEN <<maxInt(intSize)>>
    ELSE <<bytes[1]>>

\* The name array of entry m has a name whose path is p.
Names(m, p) ==
    /\ m.Name # <<>>
    /\ \E i \in 1..Len(m.Name[1]) :
          m.Name[1][i].Service # <<>> /\ PathOf(m.Name[1][i]) = p

\* C34: the MaxReqSize and the MaxRespSize stored for a method are those of
\* an entry that names it, clamped: the largest int of the platform for an
\* int64 above it, the int64 itself otherwise, nil for an absent field.
C34_SizeClamped ==
    ParsedServiceConfig =>
        LET ms == EntriesOf(fn.arg.js) IN
        \A p \in DOMAIN fn.out.sc.Methods :
            \E k \in 1..Len(ms) :
                /\ Names(ms[k], p)
                /\ fn.out.sc.Methods[p].MaxReqSize =
                       Clamped(ms[k].MaxRequestMessageBytes, fn.arg.intSize)
                /\ fn.out.sc.Methods[p].MaxRespSize =
                       Clamped(ms[k].MaxResponseMessageBytes, fn.arg.intSize)

\* The timeout of an entry is there and is not in the duration grammar.
MalformedTimeout(m) == m.Timeout # <<>> /\ ~Grammar(m.Timeout[1])

\* The document is malformed, or an entry with a name array has a malformed
\* timeout.
MustFail(js) ==
    \/ js.err # "nil"
    \/ \E k \in 1..Len(EntriesOf(js)) :
          EntriesOf(js)[k].Name # <<>> /\ MalformedTimeout(EntriesOf(js)[k])

\* C39: parseServiceConfig returns an error and the empty ServiceConfig if
\* the JSON is malformed or an entry with a name array has a malformed
\* timeout, and no error otherwise: a malformed timeout in an entry without a
\* name array is ignored.
C39_AllOrNothing ==
    fn.op = "parseServiceConfig" /\ fn.done =>
        IF MustFail(fn.arg.js)
        THEN fn.out.err # "nil" /\ fn.out.sc = noServiceConfig
        ELSE fn.out.err = "nil"


\* ----------------------------------------------- tlsCreds.ClientHandshake
\* The authorities dialed: host and port, a host alone, two colons.
Authorities ==
    {<<"a", ":", "1">>, <<"b">>, <<"a", ":", "b", ":", "1">>}

\* The ServerName of the config the credentials were made with: none, or one
\* the user has set.
ServerNames == {<<>>, <<"o">>}

\* c.config, the tls.Config of the credentials.
config0 == 1

\* (mutant) the config of the credentials itself
sameTLSConfig(cfg, fresh) == cfg

\* cloneTLSConfig(cfg): a tls.Config of its own, with the fields of cfg
cloneTLSConfig(cfg, fresh) == fresh

\* colonPos := strings.LastIndex(authority, ":"); if colonPos == -1 {
\* colonPos = len(authority) }; authority[:colonPos]
serverNameOf(authority) ==
    LET colonPos == LastIndex(authority, <<":">>) IN
    IF colonPos = 0 THEN authority ELSE SubSeq(authority, 1, colonPos - 1)

\* ClientHandshake up to its select: the copy of the config, the ServerName
\* written to the config cfg points to if that has none,
\* tls.Client(rawConn, cfg), the channel, and the goroutine started.
ClientHandshake(h, authority) ==
    /\ creds.hs[h].pc = "idle"
    /\ LET copied == Append(creds.configs, creds.configs[config0])
           cfg == cloneTLSConfig(config0, Len(copied))
           named == IF copied[cfg].ServerName = <<>>
                    THEN [copied EXCEPT ![cfg].ServerName =
                              serverNameOf(authority)]
                    ELSE copied
       IN  creds' = [creds EXCEPT
               !.configs = named,
               !.hs[h] = [@ EXCEPT !.pc = "select",
                                   !.authority = authority,
                                   !.cfg = cfg,
                                   !.g.pc = "Handshake"]]
    /\ UNCHANGED nonCredentials

\* conn.Handshake() in the goroutine: it verifies the server against the
\* ServerName of the config of conn, and returns err.
Handshake(h, err) ==
    /\ creds.hs[h].g.pc = "Handshake"
    /\ creds' = [creds EXCEPT
           !.hs[h].g = [pc |-> "send", err |-> err,
                        ServerName |->
                            creds.configs[creds.hs[h].cfg].ServerName]]
    /\ UNCHANGED nonCredentials

\* (mutant) a channel without a buffer, on which nobody receives
roomNever(ch) == FALSE

\* errChannel := make(chan error, 1): a send goes on while the channel holds
\* less than one value.
room(ch) == Len(ch) < 1

\* errChannel <- conn.Handshake(): the send, after which the goroutine ends.
HandshakeSend(h) ==
    /\ creds.hs[h].g.pc = "send"
    /\ room(creds.hs[h].errChannel)
    /\ creds' = [creds EXCEPT
           !.hs[h].errChannel = Append(@, creds.hs[h].g.err),
           !.hs[h].sent = @ + 1,
           !.hs[h].g.pc = "exit"]
    /\ UNCHANGED nonCredentials

\* case err := <-errChannel: the error is returned, or the connection.
HandshakeDone(h) ==
    /\ creds.hs[h].pc = "select"
    /\ creds.hs[h].errChannel # <<>>
    /\ LET err == Head(creds.hs[h].errChannel) IN
       creds' = [creds EXCEPT
           !.hs[h].errChannel = Tail(@),
           !.hs[h].pc = "returned",
           !.hs[h].ret = [conn |-> err = "nil", err |-> err]]
    /\ UNCHANGED nonCredentials

\* case <-ctx.Done(): return nil, nil, ctx.Err()
HandshakeCtxDone(h) ==
    /\ creds.hs[h].pc = "select"
    /\ creds.hs[h].ctx # "nil"
    /\ creds' = [creds EXCEPT
           !.hs[h].pc = "returned",
           !.hs[h].ret = [conn |-> FALSE, err |-> creds.hs[h].ctx]]
    /\ UNCHANGED nonCredentials

\* The context of a handshake is cancelled or runs out, before
\* ClientHandshake has returned.
HandshakeCtx(h, err) ==
    /\ creds.hs[h].pc # "returned"
    /\ creds.hs[h].ctx = "nil"
    /\ creds' = [creds EXCEPT !.hs[h].ctx = err]
    /\ UNCHANGED nonCredentials

\* Credentials made with NewTLS, and no RPC running.
HandshakeInit ==
    /\ Start({"Invoke"}) /\ c.failFast /\ picker = "Ready"
    /\ ci = noCallInfo /\ bal = newBalancer /\ fn = noFunction
    /\ reg = newRegistries
    /\ creds \in {NewTLS(name) : name \in ServerNames}

HandshakeNext ==
    \/ \E h \in Handshakes, a \in Authorities : ClientHandshake(h, a)
    \/ \E h \in Handshakes, err \in {"nil", "error"} : Handshake(h, err)
    \/ \E h \in Handshakes : HandshakeSend(h)
    \/ \E h \in Handshakes : HandshakeDone(h)
    \/ \E h \in Handshakes : HandshakeCtxDone(h)
    \/ \E h \in Handshakes : HandshakeCtx(h, "Canceled")

HandshakeSpec == HandshakeInit /\ [][HandshakeNext]_vars

\* The host of an authority: what precedes its last colon, all of it if
\* there is no colon.
HostOf(a) ==
    IF \A i \in 1..Len(a) : a[i] # ":" THEN a
    ELSE CHOOSE p \in {SubSeq(a, 1, k) : k \in 0..Len(a)} :
             \E rest \in {SubSeq(a, k, Len(a)) : k \in 1..(Len(a) + 1)} :
                 /\ a = p \o <<":">> \o rest
                 /\ \A i \in 1..Len(rest) : rest[i] # ":"

\* C40: the goroutine of a handshake finds room in errChannel when it
\* reports its result, whether ClientHandshake has returned or not, and
\* reports once; ClientHandshake leaves the config of the credentials as it
\* is; and the ServerName a handshake verifies is the one of the credentials
\* if they have one and the host of its own authority if not, whatever the
\* other handshakes dial.
C40_HandshakeIndependent ==
    /\ [](\A h \in Handshakes :
            /\ creds.hs[h].g.pc = "send" => ENABLED HandshakeSend(h)
            /\ creds.hs[h].sent <= 1
            /\ creds.hs[h].g.pc = "exit" => creds.hs[h].sent = 1
            /\ creds.hs[h].g.pc \in {"send", "exit"} =>
                   creds.hs[h].g.ServerName =
                       (IF creds.configs[config0].ServerName # <<>>
                        THEN creds.configs[config0].ServerName
                        ELSE HostOf(creds.hs[h].authority)))
    /\ [][creds'.configs[config0] = creds.configs[config0]]_vars

\* Two handshakes to different authorities on credentials without a
\* ServerName: the first returned when its context was done and its
\* goroutine has reported to the channel nobody reads and has ended; each has
\* verified the host of its own authority.
C40_Witness ==
    /\ creds.configs[config0].ServerName = <<>>
    /\ creds.hs[1].authority = <<"a", ":", "1">>
    /\ creds.hs[2].authority = <<"b">>
    /\ creds.hs[1].pc = "returned" /\ creds.hs[1].ret.err = "Canceled"
    /\ creds.hs[1].g.pc = "exit" /\ Len(creds.hs[1].errChannel) = 1
    /\ creds.hs[1].g.ServerName = <<"a">>
    /\ creds.hs[2].pc = "returned" /\ creds.hs[2].ret.conn
    /\ creds.hs[2].g.ServerName = <<"b">>


\* ------------------------------------------------- the calls of functions
FunctionInit ==
    /\ Start({"Invoke"}) /\ c.failFast /\ picker = "Ready"
    /\ ci = noCallInfo /\ bal = newBalancer /\ reg = newRegistries
    /\ creds = NewTLS(<<>>)
    /\ fn \in GetMaxSizeCalls \cup ParseDurationCalls \cup ParseTargetCalls
               \cup ParseServiceConfigCalls

FunctionNext ==
    \/ GetMaxSize
    \/ ParseDuration
    \/ ParseTarget
    \/ ParseServiceConfig

FunctionSpec == FunctionInit /\ [][FunctionNext]_vars

====
